---- MODULE Spec2Model ----
(***************************************************************************)
(* Front end of the planner: elaboration of a parse tree into an AST       *)
(* (src/lib/parse.rs) and expansion of template instances into dated       *)
(* entries (src/lib/template.rs).                                          *)
(*                                                                         *)
(* A parse tree node is a record whose field rule is the grammar rule and  *)
(* whose field inner is the sequence of its children; a leaf holds its     *)
(* text in str (words), digits (numerals) or lit (decimal literals).  A    *)
(* source location (pest::Span) is the path of child indices that leads to *)
(* the node.                                                               *)
(***************************************************************************)
EXTENDS Bags, FiniteSets, Integers, Sequences, TLC

VARIABLES
    src,        \* the source text: its declarations, in their order
    pc,         \* position of the run: "edit", "instanciate", "done"
    errs,       \* the ErrorRecord handed to extract
    ast,        \* the Ast returned by extract
    idx,        \* number of items the loop of instanciate has taken from ast
    templates,  \* local HashMap of instanciate: name -> (loc, Template)
    entries,    \* local Vec of instanciate: (date, entry) pairs
    result,     \* what instanciate returned
    bound,      \* what the last call of build_arguments returned
    printed     \* bag of the diagnostics written by println!

vars == <<src, pc, errs, ast, idx, templates, entries, result, bound, printed>>

----------------------------------------------------------------------------
(* Option and Result values *)

None == <<>>
Some(v) == <<v>>
is_some(o) == o # <<>>

\* let v = ...; Op(v)
With(v, Op(_)) == Op(v)

Ok(v) == [ok |-> TRUE, val |-> Some(v), err |-> None]
Err(e) == [ok |-> FALSE, val |-> None, err |-> Some(e)]

----------------------------------------------------------------------------
(* Diagnostics: a title, a severity and an ordered list of annotations, each *)
(* an optional location (<<>> when absent) with a message.                 *)

Error_new(title) == [title |-> title, fatal |-> TRUE, notes |-> <<>>]

nonfatal(e) == [e EXCEPT !.fatal = FALSE]

with_span(e, loc, text) ==
    [e EXCEPT !.notes = Append(@, [loc |-> loc, text |-> text])]

with_message(e, text) ==
    [e EXCEPT !.notes = Append(@, [loc |-> <<>>, text |-> text])]

with_error(e, text) ==
    [e EXCEPT !.notes = Append(@, [loc |-> <<>>, text |-> text])]

register(e, record) == Append(record, e)

----------------------------------------------------------------------------
(* Values of the data model *)

ArgAmount(n) == [kind |-> "Amount", amount |-> n, tag |-> ""]
ArgTag(s) == [kind |-> "Tag", amount |-> 0, tag |-> s]

AstEntry(date, entry) ==
    [item |-> "Entry", date |-> date, entry |-> entry]
AstInstance(date, loc, instance) ==
    [item |-> "Instance", date |-> date, loc |-> loc, instance |-> instance]
AstTemplate(name, loc, templ) ==
    [item |-> "Template", name |-> name, loc |-> loc, templ |-> templ]

----------------------------------------------------------------------------
(* Concrete syntax: the parse trees the grammar builds *)

Leaf(rule, s) == [rule |-> rule, str |-> s]
Num(rule, digits) == [rule |-> rule, digits |-> digits]
Node(rule, children) == [rule |-> rule, inner |-> children]

\* the literal [-]int.frac
Money(neg, int, frac) ==
    [rule |-> "money_amount", lit |-> [neg |-> neg, int |-> int, frac |-> frac]]
TagText(s) == Node("tag_text", <<Leaf("text", s)>>)
Expand(name) == Node("template_arg_expand", <<Leaf("identifier", name)>>)
Time(s) == Leaf("template_time", s)

EntryVal(money) == Node("entry_val", <<money>>)
EntryType(code) == Node("entry_type", <<Leaf("category", code)>>)
EntrySpan(items) == Node("entry_span", <<Node("span", items)>>)
EntryTag(s) == Node("entry_tag", <<TagText(s)>>)

\* val: a + b + ..., negated as a whole when neg
TemplateVal(neg, items) ==
    LET sum == IF Len(items) = 1 THEN items[1]
               ELSE Node("builtin_sum",
                        <<Node("sum_args",
                            [k \in DOMAIN items |->
                                Node("template_money_item", <<items[k]>>)])>>)
        amount == IF neg THEN Node("builtin_neg", <<sum>>) ELSE sum
    IN  Node("template_val", <<Node("template_money_amount", <<amount>>)>>)

\* tag: a b ...
TemplateTag(items) ==
    Node("template_tag",
         <<IF Len(items) = 1 /\ items[1].rule = "tag_text" THEN items[1]
           ELSE Node("builtin_concat",
                    <<Node("concat_args",
                        [k \in DOMAIN items |->
                            Node("template_string", <<items[k]>>)])>>)>>)

Positional(name) == Leaf("template_positional_arg", name)
Named(name, value) ==
    [rule |-> "template_named_arg", name |-> Leaf("identifier", name),
     deflt |-> value]

TemplateDescriptor(name, params, fields) ==
    [rule |-> "template_descriptor", id |-> Leaf("identifier", name),
     args |-> Node("template_args", params),
     body |-> Node("template_expansion_contents", fields)]

PositionalArg(value) == Node("positional_arg", <<value>>)
NamedArg(name, value) ==
    [rule |-> "named_arg", name |-> Leaf("identifier", name),
     value |-> Node("value", <<value>>)]

PlainEntry(fields) == Node("entry", <<Node("plain_entry", fields)>>)
ExpandEntry(label, args) ==
    Node("entry", <<[rule |-> "expand_entry",
                     label |-> Leaf("identifier", label),
                     args |-> Node("instance_args", args)]>>)

EntriesDay(digits, es) ==
    [rule |-> "entries_day", head |-> Num("marker_day", digits), rest |-> es]
EntriesMonth(name, days) ==
    [rule |-> "entries_month", head |-> Leaf("marker_month", name),
     rest |-> days]
EntriesYear(digits, months) ==
    [rule |-> "entries_year", head |-> Num("marker_year", digits),
     body |-> months]

\* program = SOI item* EOI, each item one declaration
Program(decls) ==
    [k \in DOMAIN decls |-> Node("item", <<decls[k]>>)]
        \o <<Node("EOI", <<>>)>>

\* text that no rule of the grammar matches
Garbage == Leaf("garbage", "?")

\* BilligParser::parse(Rule::program, contents), contents the declarations
\* of the source text in their order
parse(contents) ==
    IF \E k \in DOMAIN contents : contents[k].rule = "garbage"
    THEN Err("expected item")
    ELSE Ok(Program(contents))

----------------------------------------------------------------------------
(* Calendar: which (year, month, day) triples make a Date, and the text of *)
(* a date's parts.                                                         *)

MonthNames ==
    <<"Jan", "Feb", "Mar", "Apr", "May", "Jun",
      "Jul", "Aug", "Sep", "Oct", "Nov", "Dec">>

Month_from(s) == CHOOSE m \in 1..Len(MonthNames) : MonthNames[m] = s

is_leap(year) ==
    (year % 4 = 0 /\ year % 100 # 0) \/ year % 400 = 0

month_length(year, month) ==
    CASE month \in {4, 6, 9, 11} -> 30
      [] month = 2 -> IF is_leap(year) THEN 29 ELSE 28
      [] OTHER -> 31

Date_from(year, month, day) ==
    IF day >= 1 /\ day <= month_length(year, month)
    THEN Ok([year |-> year, month |-> month, day |-> day])
    ELSE Err("invalid day")

Date_day(date) == ToString(date.day)
Date_month(date) == MonthNames[date.month]
Date_year(date) == ToString(date.year)
Date_to_string(date) ==
    Date_year(date) \o "-" \o Date_month(date) \o "-" \o Date_day(date)
\* Zeller's congruence, 0 = Saturday
Date_weekday(date) ==
    LET m == IF date.month < 3 THEN date.month + 12 ELSE date.month
        y == IF date.month < 3 THEN date.year - 1 ELSE date.year
        h == (date.day + (13 * (m + 1)) \div 5 + y + y \div 4
              - y \div 100 + y \div 400) % 7
    IN  <<"Sat", "Sun", "Mon", "Tue", "Wed", "Thu", "Fri">>[h + 1]

Amount_to_string(n) ==
    LET a == IF n < 0 THEN -n ELSE n
        c == a % 100
    IN  (IF n < 0 THEN "-" ELSE "") \o ToString(a \div 100) \o "."
        \o (IF c < 10 THEN "0" ELSE "") \o ToString(c)

----------------------------------------------------------------------------
(* Macros of parse.rs *)

\* the only child of a wrapper node
subrule(node) == node.inner[1]

RECURSIVE digits_value(_, _)
digits_value(digits, acc) ==
    IF digits = <<>> THEN acc
    ELSE digits_value(Tail(digits), 10 * acc + Head(digits))

\* node.as_str().parse::<usize>().unwrap()
parse_usize(node) == digits_value(node.digits, 0)

\* floor(log2(n / d)), n and d positive
RECURSIVE log2_floor(_, _)
log2_floor(n, d) ==
    IF n >= 2 * d THEN 1 + log2_floor(n, 2 * d)
    ELSE IF n < d THEN log2_floor(2 * n, d) - 1
    ELSE 0

\* 2^k modulo m
RECURSIVE pow2_mod(_, _)
pow2_mod(k, m) == IF k = 0 THEN 1 % m ELSE (2 * pow2_mod(k - 1, m)) % m

\* (x * 100.0).round() for the f64 x nearest to n / 1000, n = 5 modulo 10,
\* so that n / 10 = c + 1/2 for a whole number c of cents: whether the
\* result is c + 1.  With 2^e <= n / 1000 < 2^(e + 1), the 53-bit
\* significand of x is n * 2^(49 - e) / 125 rounded to the nearest whole
\* number, so x = n / 1000 - excess / (125 * 2^(52 - e)) with excess the
\* remainder of n * 2^(49 - e) modulo 125 nearest to 0.  The product
\* x * 100.0 is c + 1/2 - (excess / 80) * 2^(e + 6 - 52), rounded to the
\* f64 nearest, ties to even: the f64 below c + 1/2 when c + 1/2 < 2^(e + 7)
\* and excess > 40, and c + 1/2 itself otherwise.  round() then takes
\* c + 1/2 to c + 1 and anything below it to c.
f64_half_rounds_up(n) ==
    LET e == log2_floor(n, 1000)
        r == ((n % 125) * pow2_mod(49 - e, 125)) % 125
        excess == IF r > 62 THEN r - 125 ELSE r
    IN  ~(log2_floor(n, 10) = e + 6 /\ excess > 40)

\* (node.as_str().parse::<f64>().unwrap() * 100.0).round() as isize, for a
\* literal sign int.frac.  Away from a half cent the errors of the f64
\* operations are far smaller than the distance to the half and the result
\* is the nearest number of cents; on a half cent the f64 decides.
parse_amount(node) ==
    LET lit == node.lit
        d(i) == IF i <= Len(lit.frac) THEN lit.frac[i] ELSE 0
        floor == 100 * digits_value(lit.int, 0) + 10 * d(1) + d(2)
        half == /\ d(3) = 5
                /\ \A i \in 4..Len(lit.frac) : lit.frac[i] = 0
        above == d(3) > 5 \/ (d(3) = 5 /\ ~half)
        cents == IF half
                 THEN floor + (IF f64_half_rounds_up(10 * floor + 5)
                               THEN 1 ELSE 0)
                 ELSE floor + (IF above THEN 1 ELSE 0)
    IN  IF lit.neg THEN -cents ELSE cents

----------------------------------------------------------------------------
(* Readers of leaf declarations *)

read_amount(item) == parse_amount(item)

read_cat(pair) ==
    CASE pair.str = "Pay" -> "Salary"
      [] pair.str = "Food" -> "Food"
      [] pair.str = "Com" -> "Communication"
      [] pair.str = "Mov" -> "Movement"
      [] pair.str = "Pro" -> "School"
      [] pair.str = "Clean" -> "Cleaning"
      [] pair.str = "Home" -> "Home"

read_duration(s) ==
    CASE s = "Day" -> "Day"
      [] s = "Week" -> "Week"
      [] s = "Month" -> "Month"
      [] s = "Year" -> "Year"

read_window(s) ==
    CASE s = "Curr" -> "Current"
      [] s = "Post" -> "Posterior"
      [] s = "Ante" -> "Anterior"
      [] s = "Pred" -> "Precedent"
      [] s = "Succ" -> "Successor"

read_span(pair) ==
    LET items == pair.inner
        duration == read_duration(items[1].str)
        window ==
            IF Len(items) >= 2 /\ items[2].rule = "span_window"
            THEN Some(read_window(items[2].str))
            ELSE None
        rest == IF is_some(window) THEN SubSeq(items, 3, Len(items))
                ELSE SubSeq(items, 2, Len(items))
        count == IF rest # <<>> THEN parse_usize(rest[1]) ELSE 1
    IN  [duration |-> duration,
         window |-> IF is_some(window) THEN window[1] ELSE "Current",
         count |-> count]

read_value(pair) ==
    CASE pair.rule = "money_amount" -> ArgAmount(read_amount(pair))
      [] pair.rule = "tag_text" -> ArgTag(subrule(pair).str)

read_arg(pair) ==
    CASE pair.rule = "template_positional_arg" ->
            [name |-> pair.str, deflt |-> None]
      [] pair.rule = "template_named_arg" ->
            [name |-> pair.name.str, deflt |-> Some(read_value(pair.deflt))]

read_args(pairs) ==
    LET args == [k \in DOMAIN pairs |-> read_arg(pairs[k])]
        is_positional(a) == ~is_some(a.deflt)
        is_named(a) == is_some(a.deflt)
        pos == SelectSeq(args, is_positional)
        nam == SelectSeq(args, is_named)
    IN  [positional |-> [k \in DOMAIN pos |-> pos[k].name],
         named |-> [k \in DOMAIN nam |->
                        [name |-> nam[k].name, val |-> nam[k].deflt[1]]]]

Cst(n) == [item |-> "Cst", amount |-> n, name |-> ""]
AmountArg(a) == [item |-> "Arg", amount |-> 0, name |-> a]

read_template_amount(pair0) ==
    LET sign == pair0.rule # "builtin_neg"
        pair == IF sign THEN pair0 ELSE subrule(pair0)
        items ==
            IF pair.rule = "builtin_sum"
            THEN [k \in DOMAIN subrule(pair).inner |->
                      subrule(subrule(pair).inner[k])]
            ELSE <<pair>>
        sum == [k \in DOMAIN items |->
                   CASE items[k].rule = "money_amount" ->
                            Cst(read_amount(items[k]))
                     [] items[k].rule = "template_arg_expand" ->
                            AmountArg(subrule(items[k]).str)]
    IN  [sign |-> sign, sum |-> sum]

TagItem(kind, s) == [item |-> kind, str |-> s]

read_template_time(s) ==
    CASE s = "@Day" -> "Day"
      [] s = "@Month" -> "Month"
      [] s = "@Year" -> "Year"
      [] s = "@Date" -> "Date"
      [] s = "@Weekday" -> "Weekday"

read_template_tag(pair) ==
    LET concat ==
            CASE pair.rule = "builtin_concat" ->
                    [k \in DOMAIN subrule(pair).inner |->
                        subrule(subrule(pair).inner[k])]
              [] pair.rule = "tag_text" -> <<pair>>
              [] OTHER -> pair.inner
    IN  [k \in DOMAIN concat |->
            CASE concat[k].rule = "tag_text" ->
                    TagItem("Raw", subrule(concat[k]).str)
              [] concat[k].rule = "template_arg_expand" ->
                    TagItem("Arg", subrule(concat[k]).str)
              [] concat[k].rule = "template_time" ->
                    TagItem(read_template_time(concat[k].str), "")]

read_expand_entry(pairs) ==
    LET args == pairs.args.inner
        is_positional(a) == a.rule = "positional_arg"
        is_named(a) == a.rule = "named_arg"
        pos == SelectSeq(args, is_positional)
        nam == SelectSeq(args, is_named)
    IN  [label |-> pairs.label.str,
         pos |-> [k \in DOMAIN pos |-> read_value(subrule(pos[k]))],
         named |-> [k \in DOMAIN nam |->
                       [name |-> nam[k].name.str,
                        val |-> read_value(subrule(nam[k].value))]]]

----------------------------------------------------------------------------
(* Set-once fields.  Both macros may leave the enclosing function with     *)
(* None: returned tells whether they did.                                  *)

set_or_overwrite(record, var, val, name, loc) ==
    [returned |-> FALSE, errs |-> record, var |-> Some(val)]

set_or_fail(record, var, val, name, loc) ==
    IF is_some(var)
    THEN [returned |-> TRUE,
          errs |-> register(
              with_message(
                  with_message(
                      with_span(Error_new("Duplicate field definition"),
                                loc, "attempt to override " \o name),
                      "Each field may only be defined once"),
                  "Remove this field"),
              record),
          var |-> var]
    ELSE [returned |-> FALSE, errs |-> record, var |-> Some(val)]

unwrap_or_fail(record, val, name, loc) ==
    IF is_some(val)
    THEN [returned |-> FALSE, errs |-> record, v |-> val]
    ELSE [returned |-> TRUE,
          errs |-> register(
              with_message(
                  with_message(
                      with_span(Error_new("Missing field definition"),
                                loc, "'" \o name \o "' may not be omitted"),
                      "Each field must be defined once"),
                  "Add definition for the missing field"),
              record),
          v |-> None]

NoFields == [value |-> None, cat |-> None, span |-> None, tag |-> None]

\* the four unwrap_or_fail! that end validate_plain_entry and
\* validate_template, in their order
unwrap_fields(record, slots, loc) ==
    LET u1 == unwrap_or_fail(record, slots.value, "val", loc)
        u2 == unwrap_or_fail(u1.errs, slots.cat, "cat", loc)
        u3 == unwrap_or_fail(u2.errs, slots.span, "span", loc)
        u4 == unwrap_or_fail(u3.errs, slots.tag, "tag", loc)
    IN  CASE u1.returned -> [val |-> None, errs |-> u1.errs]
          [] u2.returned -> [val |-> None, errs |-> u2.errs]
          [] u3.returned -> [val |-> None, errs |-> u3.errs]
          [] u4.returned -> [val |-> None, errs |-> u4.errs]
          [] OTHER ->
                [val |-> Some([value |-> u1.v[1], cat |-> u2.v[1],
                               span |-> u3.v[1], tag |-> u4.v[1]]),
                 errs |-> u4.errs]

\* the slot, the value and the name a field of a plain entry stands for
plain_field(item) ==
    CASE item.rule = "entry_val" ->
            [slot |-> "value", val |-> parse_amount(subrule(item)),
             name |-> "val"]
      [] item.rule = "entry_type" ->
            [slot |-> "cat", val |-> read_cat(subrule(item)), name |-> "cat"]
      [] item.rule = "entry_span" ->
            [slot |-> "span", val |-> read_span(subrule(item)),
             name |-> "span"]
      [] item.rule = "entry_tag" ->
            [slot |-> "tag", val |-> subrule(subrule(item)).str,
             name |-> "tag"]

\* the slot, the value and the name a field of a template body stands for
template_field(sub) ==
    CASE sub.rule = "template_val" ->
            [slot |-> "value",
             val |-> read_template_amount(subrule(subrule(sub))),
             name |-> "val"]
      [] sub.rule = "entry_type" ->
            [slot |-> "cat", val |-> read_cat(subrule(sub)), name |-> "type"]
      [] sub.rule = "entry_span" ->
            [slot |-> "span", val |-> read_span(subrule(sub)),
             name |-> "span"]
      [] sub.rule = "template_tag" ->
            [slot |-> "tag", val |-> read_template_tag(subrule(sub)),
             name |-> "tag"]

\* the loop of validate_plain_entry, from its i-th field on
RECURSIVE plain_entry_fields(_, _, _, _, _)
plain_entry_fields(loc, record, items, i, slots) ==
    IF i > Len(items)
    THEN unwrap_fields(record, slots, loc)
    ELSE With(plain_field(items[i]), LAMBDA f :
         With(set_or_fail(record, slots[f.slot], f.val, f.name, loc),
              LAMBDA s :
                IF s.returned
                THEN [val |-> None, errs |-> s.errs]
                ELSE plain_entry_fields(loc, s.errs, items, i + 1,
                                        [slots EXCEPT ![f.slot] = s.var])))

validate_plain_entry(loc, record, pair) ==
    plain_entry_fields(loc, record, pair.inner, 1, NoFields)

\* a loop that registers the diagnostic of a field met twice and goes on
\* with the value met first
RECURSIVE template_fields_going_on(_, _, _, _, _)
template_fields_going_on(loc, record, items, i, slots) ==
    IF i > Len(items)
    THEN unwrap_fields(record, slots, loc)
    ELSE With(template_field(items[i]), LAMBDA f :
         With(set_or_fail(record, slots[f.slot], f.val, f.name, loc),
              LAMBDA s :
                template_fields_going_on(loc, s.errs, items, i + 1,
                    [slots EXCEPT ![f.slot] = s.var])))

\* the loop of validate_template, from the i-th field of the body on
RECURSIVE template_fields(_, _, _, _, _)
template_fields(loc, record, items, i, slots) ==
    IF i > Len(items)
    THEN unwrap_fields(record, slots, loc)
    ELSE With(template_field(items[i]), LAMBDA f :
         With(set_or_fail(record, slots[f.slot], f.val, f.name, loc),
              LAMBDA s :
                IF s.returned
                THEN [val |-> None, errs |-> s.errs]
                ELSE template_fields(loc, s.errs, items, i + 1,
                                     [slots EXCEPT ![f.slot] = s.var])))

validate_template(loc, record, pair) ==
    With(read_args(pair.args.inner), LAMBDA args :
    With(template_fields(loc, record, pair.body.inner, 1, NoFields),
         LAMBDA body :
           IF ~is_some(body.val)
           THEN [val |-> None, errs |-> body.errs]
           ELSE [val |-> Some([name |-> pair.id.str,
                               templ |-> [positional |-> args.positional,
                                          named |-> args.named,
                                          value |-> body.val[1].value,
                                          cat |-> body.val[1].cat,
                                          span |-> body.val[1].span,
                                          tag |-> body.val[1].tag]]),
                 errs |-> body.errs]))

----------------------------------------------------------------------------
(* The nested blocks.  Each function returns the items it built together   *)
(* with the error record; path is the location of the block walked.        *)

\* the loop of validate_day, from the l-th entry on
RECURSIVE validate_day_from(_, _, _, _, _, _)
validate_day_from(path, record, date, pairs, l, v) ==
    IF l > Len(pairs)
    THEN [val |-> Some(v), errs |-> record]
    ELSE LET entry == subrule(pairs[l])
             loc == Append(path, l)
         IN  IF entry.rule = "expand_entry"
             THEN validate_day_from(path, record, date, pairs, l + 1,
                      Append(v, AstInstance(date, loc,
                                            read_expand_entry(entry))))
             ELSE With(validate_plain_entry(loc, record, entry), LAMBDA res :
                    IF is_some(res.val)
                    THEN validate_day_from(path, res.errs, date, pairs,
                             l + 1, Append(v, AstEntry(date, res.val[1])))
                    ELSE validate_day_from(path, res.errs, date, pairs,
                             l + 1, v))

validate_day(path, record, date, pairs) ==
    validate_day_from(path, record, date, pairs, 1, <<>>)

\* a loop that gives up the month at the first day that is no date
RECURSIVE validate_month_until(_, _, _, _, _, _, _)
validate_month_until(path, record, year, month, pairs, k, v) ==
    IF k > Len(pairs)
    THEN [val |-> Some(v), errs |-> record]
    ELSE LET loc == Append(path, k)
             day == parse_usize(pairs[k].head)
             date == Date_from(year, month, day)
         IN  IF date.ok
             THEN With(validate_day(loc, record, date.val[1], pairs[k].rest),
                       LAMBDA items :
                    IF is_some(items.val)
                    THEN validate_month_until(path, items.errs, year, month,
                             pairs, k + 1, v \o items.val[1])
                    ELSE validate_month_until(path, items.errs, year, month,
                             pairs, k + 1, v))
             ELSE [val |-> Some(v),
                   errs |-> register(
                                with_message(
                                    with_span(Error_new("Invalid date"),
                                              loc, "defined here"),
                                    date.err[1]),
                                record)]

\* the loop of validate_month, from the k-th day block on
RECURSIVE validate_month_from(_, _, _, _, _, _, _)
validate_month_from(path, record, year, month, pairs, k, v) ==
    IF k > Len(pairs)
    THEN [val |-> Some(v), errs |-> record]
    ELSE LET loc == Append(path, k)
             day == parse_usize(pairs[k].head)
             date == Date_from(year, month, day)
         IN  IF date.ok
             THEN With(validate_day(loc, record, date.val[1], pairs[k].rest),
                       LAMBDA items :
                    IF is_some(items.val)
                    THEN validate_month_from(path, items.errs, year, month,
                             pairs, k + 1, v \o items.val[1])
                    ELSE validate_month_from(path, items.errs, year, month,
                             pairs, k + 1, v))
             ELSE validate_month_from(path,
                      register(
                          with_message(
                              with_span(Error_new("Invalid date"),
                                        loc, "defined here"),
                              date.err[1]),
                          record),
                      year, month, pairs, k + 1, v)

validate_month(path, record, year, month, pairs) ==
    validate_month_from(path, record, year, month, pairs, 1, <<>>)

\* the loop of validate_year, from the j-th month block on
RECURSIVE validate_year_from(_, _, _, _, _, _)
validate_year_from(path, record, year, pairs, j, v) ==
    IF j > Len(pairs)
    THEN [val |-> Some(v), errs |-> record]
    ELSE With(validate_month(Append(path, j), record, year,
                             Month_from(pairs[j].head.str), pairs[j].rest),
              LAMBDA items :
                IF is_some(items.val)
                THEN validate_year_from(path, items.errs, year, pairs, j + 1,
                                        v \o items.val[1])
                ELSE validate_year_from(path, items.errs, year, pairs, j + 1,
                                        v))

validate_year(path, record, year, pairs) ==
    validate_year_from(path, record, year, pairs, 1, <<>>)

\* the loops of validate: from the c-th node of the i-th pair on.  A failed
\* declaration leaves the inner loop for the next pair (continue 'pairs).
RECURSIVE validate_from(_, _, _, _, _)
validate_from(record, pairs, i, c, tree) ==
    IF i > Len(pairs) \/ pairs[i].rule = "EOI"
    THEN [ast |-> tree, errs |-> record]
    ELSE IF c > Len(pairs[i].inner)
    THEN validate_from(record, pairs, i + 1, 1, tree)
    ELSE LET item == pairs[i].inner[c]
             loc == <<i, c>>
         IN  IF item.rule = "template_descriptor"
             THEN With(validate_template(loc, record, item), LAMBDA res :
                    IF is_some(res.val)
                    THEN validate_from(res.errs, pairs, i, c + 1,
                             Append(tree, AstTemplate(res.val[1].name, loc,
                                                      res.val[1].templ)))
                    ELSE validate_from(res.errs, pairs, i + 1, 1, tree))
             ELSE With(validate_year(loc, record, parse_usize(item.head),
                                     item.body),
                       LAMBDA items :
                    IF is_some(items.val)
                    THEN validate_from(items.errs, pairs, i, c + 1,
                                       tree \o items.val[1])
                    ELSE validate_from(items.errs, pairs, i + 1, 1, tree))

validate(record, pairs) == validate_from(record, pairs, 1, 1, <<>>)

\* an extract that elaborates the declarations around the text that does
\* not parse
extract_around(record, contents) ==
    With(parse(contents), LAMBDA parsed :
      IF ~parsed.ok
      THEN With(validate(record,
                         Program(SelectSeq(contents,
                                     LAMBDA d : d.rule # "garbage"))),
                LAMBDA v :
                  [ast |-> v.ast,
                   errs |-> register(with_error(Error_new("Parsing failure"),
                                                parsed.err[1]),
                                     v.errs)])
      ELSE validate(record, parsed.val[1]))

extract(record, contents) ==
    With(parse(contents), LAMBDA parsed :
      IF ~parsed.ok
      THEN [ast |-> <<>>,
            errs |-> register(with_error(Error_new("Parsing failure"),
                                         parsed.err[1]),
                              record)]
      ELSE validate(record, parsed.val[1]))

----------------------------------------------------------------------------
(* Template instantiation (template.rs).  A HashMap is a function on its   *)
(* keys, a HashSet a set.                                                  *)

EmptyMap == [k \in {} |-> None]

insert(map, key, val) ==
    [k \in DOMAIN map \cup {key} |-> IF k = key THEN val ELSE map[k]]

\* for (name, val) in pairs { map.insert(name.to_string(), *val) }
RECURSIVE insert_each(_, _)
insert_each(map, pairs) ==
    IF pairs = <<>> THEN map
    ELSE insert_each(insert(map, Head(pairs).name, Head(pairs).val),
                     Tail(pairs))

\* positional.iter().zip(pos.iter())
zip(names, vals) ==
    LET n == IF Len(names) < Len(vals) THEN Len(names) ELSE Len(vals)
    IN  [k \in 1..n |-> [name |-> names[k], val |-> vals[k]]]

\* a binding that pairs as many positional arguments as it can
build_arguments_truncating(instance, loc, template) ==
    Ok(insert_each(insert_each(insert_each(EmptyMap,
                                   zip(template.templ.positional,
                                       instance.pos)),
                               template.templ.named),
                   instance.named))

\* a binding that lets the defaults of the template override the instance
build_arguments_defaults_last(instance, loc, template) ==
    IF Len(instance.pos) # Len(template.templ.positional)
    THEN Err(with_message(
                 with_span(
                     with_span(Error_new("Argcount mismatch"), loc,
                         "instanciation provides "
                             \o ToString(Len(instance.pos)) \o " arguments"),
                     template.loc,
                     "template expects "
                         \o ToString(Len(template.templ.positional))
                         \o " arguments"),
                 "Fix the count mismatch"))
    ELSE Ok(insert_each(insert_each(insert_each(EmptyMap,
                                        zip(template.templ.positional,
                                            instance.pos)),
                                    instance.named),
                        template.templ.named))

\* a binding that takes the named arguments of the instance for the
\* parameters of the template only
build_arguments_declared_only(instance, loc, template) ==
    IF Len(instance.pos) # Len(template.templ.positional)
    THEN Err(with_message(
                 with_span(
                     with_span(Error_new("Argcount mismatch"), loc,
                         "instanciation provides "
                             \o ToString(Len(instance.pos)) \o " arguments"),
                     template.loc,
                     "template expects "
                         \o ToString(Len(template.templ.positional))
                         \o " arguments"),
                 "Fix the count mismatch"))
    ELSE LET positional == insert_each(EmptyMap,
                               zip(template.templ.positional, instance.pos))
             defaults == insert_each(positional, template.templ.named)
             declared(pair) == pair.name \in DOMAIN defaults
         IN  Ok(insert_each(defaults, SelectSeq(instance.named, declared)))

\* a binding where the positional arguments come last
build_arguments_positional_last(instance, loc, template) ==
    IF Len(instance.pos) # Len(template.templ.positional)
    THEN Err(with_message(
                 with_span(
                     with_span(Error_new("Argcount mismatch"), loc,
                         "instanciation provides "
                             \o ToString(Len(instance.pos)) \o " arguments"),
                     template.loc,
                     "template expects "
                         \o ToString(Len(template.templ.positional))
                         \o " arguments"),
                 "Fix the count mismatch"))
    ELSE LET defaults == insert_each(EmptyMap, template.templ.named)
             named == insert_each(defaults, instance.named)
         IN  Ok(insert_each(named,
                            zip(template.templ.positional, instance.pos)))

\* template is the pair (loc, templ) kept in the registry
build_arguments(instance, loc, template) ==
    IF Len(instance.pos) # Len(template.templ.positional)
    THEN Err(with_message(
                 with_span(
                     with_span(Error_new("Argcount mismatch"), loc,
                         "instanciation provides "
                             \o ToString(Len(instance.pos)) \o " arguments"),
                     template.loc,
                     "template expects "
                         \o ToString(Len(template.templ.positional))
                         \o " arguments"),
                 "Fix the count mismatch"))
    ELSE LET positional == insert_each(EmptyMap,
                               zip(template.templ.positional, instance.pos))
             \* template first so that instance overrides them
             defaults == insert_each(positional, template.templ.named)
         IN  Ok(insert_each(defaults, instance.named))

missing_argument(name, loc_inst, loc_templ, a) ==
    with_message(
        with_span(
            with_message(
                with_span(Error_new("Missing argument"), loc_inst,
                          "in instanciation of '" \o name \o "'"),
                "Argument '" \o a \o "' is not provided"),
            loc_templ, "defined here"),
        "Remove argument from template body or provide a default value")

\* a loop that passes over a reference without a binding
RECURSIVE amount_from_skipping(_, _, _, _, _, _, _, _)
amount_from_skipping(name, loc_inst, loc_templ, templ, args, k, sum, used) ==
    IF k > Len(templ.sum)
    THEN Ok([value |-> IF templ.sign THEN sum ELSE -sum, used |-> used])
    ELSE LET item == templ.sum[k]
             next(n, u) == amount_from_skipping(name, loc_inst, loc_templ,
                                                templ, args, k + 1, n, u)
         IN  IF item.item = "Cst" THEN next(sum + item.amount, used)
             ELSE IF item.name \notin DOMAIN args
             THEN next(sum, used \cup {item.name})
             ELSE IF args[item.name].kind = "Amount"
             THEN next(sum + args[item.name].amount, used \cup {item.name})
             ELSE Err(with_message(
                          with_span(
                              with_message(
                                  with_span(Error_new("Type mismatch"),
                                      loc_inst,
                                      "in instanciation of '" \o name \o "'"),
                                  "Cannot treat tag as a monetary value"),
                              loc_templ, "defined here"),
                          "Make it a value"))

\* the loop of instantiate_amount, from the k-th item of the sum on
RECURSIVE amount_from(_, _, _, _, _, _, _, _)
amount_from(name, loc_inst, loc_templ, templ, args, k, sum, used) ==
    IF k > Len(templ.sum)
    THEN Ok([value |-> IF templ.sign THEN sum ELSE -sum, used |-> used])
    ELSE LET item == templ.sum[k]
         IN  IF item.item = "Cst"
             THEN amount_from(name, loc_inst, loc_templ, templ, args, k + 1,
                              sum + item.amount, used)
             ELSE IF item.name \notin DOMAIN args
             THEN Err(missing_argument(name, loc_inst, loc_templ, item.name))
             ELSE IF args[item.name].kind = "Amount"
             THEN amount_from(name, loc_inst, loc_templ, templ, args, k + 1,
                              sum + args[item.name].amount,
                              used \cup {item.name})
             ELSE Err(with_message(
                          with_span(
                              with_message(
                                  with_span(Error_new("Type mismatch"),
                                      loc_inst,
                                      "in instanciation of '" \o name \o "'"),
                                  "Cannot treat tag as a monetary value"),
                              loc_templ, "defined here"),
                          "Make it a value"))

\* an evaluation that forgets the sign of the template
instantiate_amount_unsigned(name, loc_inst, loc_templ, templ, args) ==
    amount_from(name, loc_inst, loc_templ, [templ EXCEPT !.sign = TRUE],
                args, 1, 0, {})

instantiate_amount(name, loc_inst, loc_templ, templ, args) ==
    amount_from(name, loc_inst, loc_templ, templ, args, 1, 0, {})

\* a loop that takes an amount in a tag for a type error
RECURSIVE tag_from_typed(_, _, _, _, _, _, _, _, _)
tag_from_typed(name, loc_inst, loc_templ, templ, args, date, k, tag, used) ==
    IF k > Len(templ)
    THEN Ok([tag |-> tag, used |-> used])
    ELSE LET item == templ[k]
             push(s) == tag_from_typed(name, loc_inst, loc_templ, templ,
                                       args, date, k + 1, tag \o s,
                                       IF item.item = "Arg"
                                       THEN used \cup {item.str} ELSE used)
         IN  CASE item.item = "Day" -> push(Date_day(date))
               [] item.item = "Month" -> push(Date_month(date))
               [] item.item = "Year" -> push(Date_year(date))
               [] item.item = "Date" -> push(Date_to_string(date))
               [] item.item = "Weekday" -> push(Date_weekday(date))
               [] item.item = "Raw" -> push(item.str)
               [] item.item = "Arg" ->
                    IF item.str \notin DOMAIN args
                    THEN Err(missing_argument(name, loc_inst, loc_templ,
                                              item.str))
                    ELSE IF args[item.str].kind = "Amount"
                    THEN Err(with_span(Error_new("Type mismatch"), loc_inst,
                                 "in instanciation of '" \o name \o "'"))
                    ELSE push(args[item.str].tag)

\* the loop of instanciate_tag, from the k-th item on
RECURSIVE tag_from(_, _, _, _, _, _, _, _, _)
tag_from(name, loc_inst, loc_templ, templ, args, date, k, tag, used) ==
    IF k > Len(templ)
    THEN Ok([tag |-> tag, used |-> used])
    ELSE LET item == templ[k]
             push(s) == tag_from(name, loc_inst, loc_templ, templ, args,
                                 date, k + 1, tag \o s,
                                 IF item.item = "Arg"
                                 THEN used \cup {item.str} ELSE used)
         IN  CASE item.item = "Day" -> push(Date_day(date))
               [] item.item = "Month" -> push(Date_month(date))
               [] item.item = "Year" -> push(Date_year(date))
               [] item.item = "Date" -> push(Date_to_string(date))
               [] item.item = "Weekday" -> push(Date_weekday(date))
               [] item.item = "Raw" -> push(item.str)
               [] item.item = "Arg" ->
                    IF item.str \notin DOMAIN args
                    THEN Err(missing_argument(name, loc_inst, loc_templ,
                                              item.str))
                    ELSE IF args[item.str].kind = "Amount"
                    THEN push(Amount_to_string(args[item.str].amount))
                    ELSE push(args[item.str].tag)

instanciate_tag(name, loc_inst, loc_templ, templ, args, date) ==
    tag_from(name, loc_inst, loc_templ, templ, args, date, 1, "", {})

----------------------------------------------------------------------------
\* an audit that does not look at the type of the argument
audit_untyped(name, loc, templ, argname, argval, use_v, use_t) ==
    CASE ~use_v /\ ~use_t ->
            SetToBag({
                with_message(
                    with_span(
                        with_message(
                            with_span(nonfatal(Error_new("Unused argument")),
                                loc, "in instanciation of '" \o name \o "'"),
                            "Argument " \o argname
                                \o " is provided but not used"),
                        templ.loc, "defined here"),
                    "Remove argument or use in template")})
      [] ~use_v /\ use_t ->
            SetToBag({
                with_message(
                    with_span(
                        with_message(
                            with_span(nonfatal(Error_new("Needless amount")),
                                loc, "in instanciation of '" \o name \o "'"),
                            "Argument '" \o argname
                                \o "' has type 'amount' but could be a 'tag'"),
                        templ.loc, "defined here"),
                    "Change to string or use in amount calculation")})
      [] OTHER -> EmptyBag

\* an audit that looks at the amount only
audit_amount_only(name, loc, templ, argname, argval, use_v, use_t) ==
    IF use_v THEN EmptyBag
    ELSE SetToBag({
             with_message(
                 with_span(
                     with_message(
                         with_span(nonfatal(Error_new("Unused argument")),
                             loc, "in instanciation of '" \o name \o "'"),
                         "Argument " \o argname
                             \o " is provided but not used"),
                     templ.loc, "defined here"),
                 "Remove argument or use in template")})

\* what one turn of the loop of perform_replacements prints for an argument
audit(name, loc, templ, argname, argval, use_v, use_t) ==
    CASE ~use_v /\ ~use_t ->
            SetToBag({
                with_message(
                    with_span(
                        with_message(
                            with_span(nonfatal(Error_new("Unused argument")),
                                loc, "in instanciation of '" \o name \o "'"),
                            "Argument " \o argname
                                \o " is provided but not used"),
                        templ.loc, "defined here"),
                    "Remove argument or use in template")})
      [] argval.kind = "Amount" /\ ~use_v /\ use_t ->
            SetToBag({
                with_message(
                    with_span(
                        with_message(
                            with_span(nonfatal(Error_new("Needless amount")),
                                loc, "in instanciation of '" \o name \o "'"),
                            "Argument '" \o argname
                                \o "' has type 'amount' but could be a 'tag'"),
                        templ.loc, "defined here"),
                    "Change to string or use in amount calculation")})
      [] OTHER -> EmptyBag

\* for (argname, argval) in args.iter(): every key once, in any order
RECURSIVE audit_each(_, _, _, _, _, _, _)
audit_each(name, loc, templ, args, used_val, used_tag, keys) ==
    IF keys = {} THEN EmptyBag
    ELSE LET argname == CHOOSE k \in keys : TRUE
         IN  audit(name, loc, templ, argname, args[argname],
                   argname \in used_val, argname \in used_tag)
             (+) audit_each(name, loc, templ, args, used_val, used_tag,
                            keys \ {argname})

\* replacements that give the entry the default window and count
perform_replacements_default_span(name, loc, templ, args, date) ==
    With(instantiate_amount(name, loc, templ.loc, templ.templ.value, args),
         LAMBDA value :
    IF ~value.ok
    THEN [res |-> Err(value.err[1]), printed |-> EmptyBag]
    ELSE
    With(instanciate_tag(name, loc, templ.loc, templ.templ.tag, args, date),
         LAMBDA tag :
    IF ~tag.ok
    THEN [res |-> Err(tag.err[1]), printed |-> EmptyBag]
    ELSE [res |-> Ok([value |-> value.val[1].value,
                      cat |-> templ.templ.cat,
                      span |-> [duration |-> templ.templ.span.duration,
                                window |-> "Current",
                                count |-> 1],
                      tag |-> tag.val[1].tag]),
          printed |-> audit_each(name, loc, templ, args,
                                 value.val[1].used, tag.val[1].used,
                                 DOMAIN args)]))

\* the Result of perform_replacements and what it printed
perform_replacements(name, loc, templ, args, date) ==
    With(instantiate_amount(name, loc, templ.loc, templ.templ.value, args),
         LAMBDA value :
    IF ~value.ok
    THEN [res |-> Err(value.err[1]), printed |-> EmptyBag]
    ELSE
    With(instanciate_tag(name, loc, templ.loc, templ.templ.tag, args, date),
         LAMBDA tag :
    IF ~tag.ok
    THEN [res |-> Err(tag.err[1]), printed |-> EmptyBag]
    ELSE [res |-> Ok([value |-> value.val[1].value,
                      cat |-> templ.templ.cat,
                      span |-> templ.templ.span,
                      tag |-> tag.val[1].tag]),
          printed |-> audit_each(name, loc, templ, args,
                                 value.val[1].used, tag.val[1].used,
                                 DOMAIN args)]))

\* a lookup that settles for any registered template
get_any(registry, label) ==
    IF DOMAIN registry # {}
    THEN Some(registry[CHOOSE k \in DOMAIN registry : TRUE])
    ELSE None

\* the registry entry instance.label resolves to, if any
get(registry, label) ==
    IF label \in DOMAIN registry THEN Some(registry[label]) ELSE None

\* the Result of instanciate_item, the Result of its call of
\* build_arguments (None when it made none) and what it printed
instanciate_item(instance, date, loc, registry) ==
    With(get(registry, instance.label), LAMBDA found :
    IF ~is_some(found)
    THEN [res |-> Err(with_message(
                          with_span(Error_new("Undeclared template"), loc,
                              "attempt to instanciate " \o instance.label),
                          "Maybe a typo ?")),
          bound |-> None,
          printed |-> EmptyBag]
    ELSE
    With(build_arguments(instance, loc, found[1]), LAMBDA args :
    IF ~args.ok
    THEN [res |-> Err(args.err[1]), bound |-> Some(args),
          printed |-> EmptyBag]
    ELSE
    With(perform_replacements(instance.label, loc, found[1], args.val[1],
                              date),
         LAMBDA r :
           [res |-> r.res, bound |-> Some(args), printed |-> r.printed])))

----------------------------------------------------------------------------
(* The run: the source text is written, then extract elaborates it and    *)
(* instanciate expands the AST extract returned.  The loop of instanciate  *)
(* takes one item of the AST per step.                                     *)

Extract ==
    /\ pc = "edit"
    /\ \E r \in {extract(errs, src)} :
           /\ ast' = r.ast
           /\ errs' = r.errs
    /\ pc' = "instanciate"
    /\ UNCHANGED <<src, idx, templates, entries, result, bound, printed>>

\* a loop step that puts the pair of a plain entry in front
InstanciateEntry_front ==
    /\ pc = "instanciate"
    /\ idx < Len(ast)
    /\ ast[idx + 1].item = "Entry"
    /\ entries' = <<<<ast[idx + 1].date, ast[idx + 1].entry>>>> \o entries
    /\ idx' = idx + 1
    /\ UNCHANGED <<src, pc, errs, ast, templates, result, bound, printed>>

InstanciateEntry ==
    /\ pc = "instanciate"
    /\ idx < Len(ast)
    /\ ast[idx + 1].item = "Entry"
    /\ entries' = Append(entries, <<ast[idx + 1].date, ast[idx + 1].entry>>)
    /\ idx' = idx + 1
    /\ UNCHANGED <<src, pc, errs, ast, templates, result, bound, printed>>

\* a loop step that keeps the template registered first under a name
InstanciateTemplate_keep_first ==
    /\ pc = "instanciate"
    /\ idx < Len(ast)
    /\ ast[idx + 1].item = "Template"
    /\ templates' = IF ast[idx + 1].name \in DOMAIN templates THEN templates
                    ELSE insert(templates, ast[idx + 1].name,
                                [loc |-> ast[idx + 1].loc,
                                 templ |-> ast[idx + 1].templ])
    /\ idx' = idx + 1
    /\ UNCHANGED <<src, pc, errs, ast, entries, result, bound, printed>>

InstanciateTemplate ==
    /\ pc = "instanciate"
    /\ idx < Len(ast)
    /\ ast[idx + 1].item = "Template"
    /\ templates' = insert(templates, ast[idx + 1].name,
                           [loc |-> ast[idx + 1].loc,
                            templ |-> ast[idx + 1].templ])
    /\ idx' = idx + 1
    /\ UNCHANGED <<src, pc, errs, ast, entries, result, bound, printed>>

InstanciateInstance ==
    /\ pc = "instanciate"
    /\ idx < Len(ast)
    /\ ast[idx + 1].item = "Instance"
    /\ \E item \in {ast[idx + 1]} :
       \E inst \in {instanciate_item(item.instance, item.date, item.loc,
                                     templates)} :
           /\ bound' = inst.bound
           /\ printed' = printed (+) inst.printed
           /\ IF inst.res.ok
              THEN /\ entries' = Append(entries, <<item.date, inst.res.val[1]>>)
                   /\ UNCHANGED <<pc, result>>
              ELSE /\ result' = Some(Err(inst.res.err[1]))
                   /\ pc' = "done"
                   /\ UNCHANGED entries
    /\ idx' = idx + 1
    /\ UNCHANGED <<src, errs, ast, templates>>

InstanciateReturn ==
    /\ pc = "instanciate"
    /\ idx = Len(ast)
    /\ result' = Some(Ok(entries))
    /\ pc' = "done"
    /\ UNCHANGED <<src, errs, ast, idx, templates, entries, bound, printed>>

Run ==
    \/ Extract
    \/ InstanciateEntry
    \/ InstanciateTemplate
    \/ InstanciateInstance
    \/ InstanciateReturn

\* the state before the run on the source text contents
Start(contents) ==
    /\ src = contents
    /\ pc = "edit"
    /\ errs = <<>>
    /\ ast = <<>>
    /\ idx = 0
    /\ templates = EmptyMap
    /\ entries = <<>>
    /\ result = None
    /\ bound = None
    /\ printed = EmptyBag

----------------------------------------------------------------------------
(* Source programs of bounded size *)

\* declarations (templates and entries) of a program
MaxDecls == 3

Years == {<<2, 0, 2, 4>>}
Months == {"Jan", "Feb"}
Days == {<<0, 1>>, <<3, 0>>}

\* val: 5.00 type: Food span: Day tag: "x"
GoodFields ==
    <<EntryVal(Money(FALSE, <<5>>, <<0, 0>>)), EntryType("Food"),
      EntrySpan(<<Leaf("span_duration", "Day")>>), EntryTag("x")>>

\* rent(amount) { val: @amount; type: Home; span: Month; tag: "rent" }
RentTemplate ==
    TemplateDescriptor("rent", <<Positional("amount")>>,
        <<TemplateVal(FALSE, <<Expand("amount")>>), EntryType("Home"),
          EntrySpan(<<Leaf("span_duration", "Month")>>),
          TemplateTag(<<TagText("rent")>>)>>)

\* rent() { val: -(1.50); type: Food; span: Week Post 2; tag: "r" @Day }
RentConstant ==
    TemplateDescriptor("rent", <<>>,
        <<TemplateVal(TRUE, <<Money(FALSE, <<1>>, <<5, 0>>)>>),
          EntryType("Food"),
          EntrySpan(<<Leaf("span_duration", "Week"),
                      Leaf("span_window", "Post"),
                      Num("span_count", <<2>>)>>),
          TemplateTag(<<TagText("r"), Time("@Day")>>)>>)

TemplatePool == {RentTemplate, RentConstant}

\* a plain entry, rent(-500.00) and Rent(-500.00)
EntryPool ==
    {PlainEntry(GoodFields),
     ExpandEntry("rent", <<PositionalArg(Money(TRUE, <<5, 0, 0>>, <<0, 0>>))>>),
     ExpandEntry("Rent", <<PositionalArg(Money(TRUE, <<5, 0, 0>>, <<0, 0>>))>>)}

Last(s) == s[Len(s)]

\* the programs that continue decls by one more declaration
Extensions(decls, templs, es) ==
    LET new_day == {EntriesDay(d, <<e>>) : d \in Days, e \in es}
        new_month == {EntriesMonth(m, <<d>>) : m \in Months, d \in new_day}
        new_year == {EntriesYear(y, <<m>>) : y \in Years, m \in new_month}
        n == Len(decls)
        j == Len(decls[n].body)
        k == Len(decls[n].body[j].rest)
    IN  {Append(decls, t) : t \in templs}
        \cup {Append(decls, y) : y \in new_year}
        \cup IF decls = <<>> \/ Last(decls).rule # "entries_year" THEN {}
             ELSE {[decls EXCEPT ![n].body = Append(@, m)] : m \in new_month}
                  \cup {[decls EXCEPT ![n].body[j].rest = Append(@, d)] :
                            d \in new_day}
                  \cup {[decls EXCEPT ![n].body[j].rest[k].rest =
                             Append(@, e)] : e \in es}

RECURSIVE Sum(_)
Sum(s) == IF s = <<>> THEN 0 ELSE Head(s) + Sum(Tail(s))

\* the number of declarations of a program
Declarations(decls) ==
    Sum([i \in DOMAIN decls |->
            IF decls[i].rule # "entries_year" THEN 1
            ELSE Sum([j \in DOMAIN decls[i].body |->
                     Sum([k \in DOMAIN decls[i].body[j].rest |->
                             Len(decls[i].body[j].rest[k].rest)])])])

\* the author adds a declaration to the source text
Write ==
    /\ pc = "edit"
    /\ Declarations(src) < MaxDecls
    /\ src' \in Extensions(src, TemplatePool \cup {Garbage}, EntryPool)
    /\ UNCHANGED <<pc, errs, ast, idx, templates, entries, result, bound,
                   printed>>

Init == Start(<<>>)

Next == Write \/ Run

Spec == Init /\ [][Next]_vars

----------------------------------------------------------------------------
(* Runs on a source text in which one declaration has any list of fields *)

\* fields of the declaration
MaxFields == 5

\* the lists of at most n elements of S
SeqsUpTo(S, n) == UNION {[1..k -> S] : k \in 0..n}

InsertAt(s, pos, x) == SubSeq(s, 1, pos - 1) \o <<x>> \o SubSeq(s, pos, Len(s))

\* the fields of RentTemplate
RentFields == RentTemplate.body.inner

\* rent(-500.00)
RentInstance ==
    ExpandEntry("rent", <<PositionalArg(Money(TRUE, <<5, 0, 0>>, <<0, 0>>))>>)

\* 2024: Jan: 01: es
OneDay(es) ==
    EntriesYear(<<2, 0, 2, 4>>,
                <<EntriesMonth("Jan", <<EntriesDay(<<0, 1>>, es)>>)>>)

\* a plain entry with the fields kinds selects, among a plain entry and an
\* instance of a template declared before them
PlainUnderTest(kinds, pos) ==
    <<RentTemplate,
      OneDay(InsertAt(<<PlainEntry(GoodFields), RentInstance>>, pos,
                      PlainEntry([k \in DOMAIN kinds |->
                                     GoodFields[kinds[k]]])))>>

\* a template rent(amount) with the fields kinds selects, alone or next to
\* another declaration of rent, before a plain entry and an instance
TemplateUnderTest(kinds, pos) ==
    InsertAt(IF pos = 3 THEN <<>> ELSE <<RentConstant>>,
             IF pos = 2 THEN 2 ELSE 1,
             TemplateDescriptor("rent", <<Positional("amount")>>,
                 [k \in DOMAIN kinds |-> RentFields[kinds[k]]]))
    \o <<OneDay(<<PlainEntry(GoodFields), RentInstance>>)>>

InitFields ==
    \E kinds \in SeqsUpTo(1..4, MaxFields) :
        \/ \E pos \in 1..3 : Start(PlainUnderTest(kinds, pos))
        \/ \E pos \in 1..3 : Start(TemplateUnderTest(kinds, pos))

SpecFields == InitFields /\ [][Run]_vars

----------------------------------------------------------------------------
(* Runs on a source text with one template and one instance of it, the    *)
(* parameters of the one and the arguments of the other any lists         *)

\* positional parameters of the template; the instance has up to one more
\* positional argument
MaxPos == 2
\* named parameters of the template, named arguments of the instance
MaxNamed == 2

ArgNames == {"x", "y"}

\* 1.00 and "a", 2.00 and "b", 3.00 and "c"
PositionalValues == {Money(FALSE, <<1>>, <<0, 0>>), TagText("a")}
DefaultValues == {Money(FALSE, <<2>>, <<0, 0>>), TagText("b")}
NamedValues == {Money(FALSE, <<3>>, <<0, 0>>), TagText("c")}

\* t(params) { val: 1.50; type: Food; span: Day; tag: @x }
TaggedByX(params) ==
    TemplateDescriptor("t", params,
        <<TemplateVal(FALSE, <<Money(FALSE, <<1>>, <<5, 0>>)>>),
          EntryType("Food"), EntrySpan(<<Leaf("span_duration", "Day")>>),
          TemplateTag(<<Expand("x")>>)>>)

\* the template, then a plain entry and the instance on one day
TemplateAndInstance(template, args) ==
    <<template, OneDay(<<PlainEntry(GoodFields), ExpandEntry("t", args)>>)>>

InitArgs ==
    \E positional \in SeqsUpTo(ArgNames, MaxPos),
       named \in SeqsUpTo(ArgNames \X DefaultValues, MaxNamed),
       pos \in SeqsUpTo(PositionalValues, MaxPos + 1),
       nam \in SeqsUpTo(ArgNames \X NamedValues, MaxNamed) :
        Start(TemplateAndInstance(
                  TaggedByX([k \in DOMAIN positional |->
                                Positional(positional[k])]
                            \o [k \in DOMAIN named |->
                                   Named(named[k][1], named[k][2])]),
                  [k \in DOMAIN pos |-> PositionalArg(pos[k])]
                  \o [k \in DOMAIN nam |-> NamedArg(nam[k][1], nam[k][2])]))

SpecArgs == InitArgs /\ [][Run]_vars

----------------------------------------------------------------------------
(* Runs on a source text with one template and one instance of it, the    *)
(* amount and the tag of the template any expressions                     *)

\* terms of the amount of the template
MaxSum == 2
\* parts of the tag of the template
MaxTag == 2

NonEmpty(seqs) == seqs \ {<<>>}

\* 1.50, @x, @y, @z
AmountItems ==
    {Money(FALSE, <<1>>, <<5, 0>>), Expand("x"), Expand("y"), Expand("z")}
\* "r", @x, @y, @z, @Date
TagItems ==
    {TagText("r"), Expand("x"), Expand("y"), Expand("z"), Time("@Date")}

\* e(params) { val: amount; type: Food; span: Day; tag: tag }
Evaluated(params, neg, amount, tag) ==
    TemplateDescriptor("e", params,
        <<TemplateVal(neg, amount), EntryType("Food"),
          EntrySpan(<<Leaf("span_duration", "Day")>>), TemplateTag(tag)>>)

\* e(), e(x), each with or without y = 2.00 or y = "b", instantiated with
\* a value for x if it is a parameter, with or without z = 3.00 or z = "c"
InitEval ==
    \E neg \in BOOLEAN,
       amount \in NonEmpty(SeqsUpTo(AmountItems, MaxSum)),
       tag \in NonEmpty(SeqsUpTo(TagItems, MaxTag)),
       pos \in SeqsUpTo(PositionalValues, 1),
       named \in SeqsUpTo(DefaultValues, 1),
       nam \in SeqsUpTo(NamedValues, 1) :
        Start(<<Evaluated([k \in DOMAIN pos |-> Positional("x")]
                          \o [k \in DOMAIN named |-> Named("y", named[k])],
                          neg, amount, tag),
                OneDay(<<PlainEntry(GoodFields),
                         ExpandEntry("e",
                             [k \in DOMAIN pos |-> PositionalArg(pos[k])]
                             \o [k \in DOMAIN nam |->
                                    NamedArg("z", nam[k])])>>)>>)

SpecEval == InitEval /\ [][Run]_vars

----------------------------------------------------------------------------
(* Runs on a source text whose amounts are all one decimal literal *)

\* digits before and after the point of the literal
MaxIntDigits == 1
MaxFracDigits == 3

Literals ==
    {Money(neg, int, frac) :
        neg \in BOOLEAN,
        int \in NonEmpty(SeqsUpTo(0..9, MaxIntDigits)),
        frac \in SeqsUpTo(0..9, MaxFracDigits)}

\* a(x) { val: @x + money; type: Food; span: Day; tag: "a" }, then
\* val: money; type: Food; span: Day; tag: "x" and a(money) on one day
AmountsOf(money) ==
    <<TemplateDescriptor("a", <<Positional("x")>>,
          <<TemplateVal(FALSE, <<Expand("x"), money>>), EntryType("Food"),
            EntrySpan(<<Leaf("span_duration", "Day")>>),
            TemplateTag(<<TagText("a")>>)>>),
      OneDay(<<PlainEntry([GoodFields EXCEPT ![1] = EntryVal(money)]),
               ExpandEntry("a", <<PositionalArg(money)>>)>>)>>

InitAmounts == \E money \in Literals : Start(AmountsOf(money))

SpecAmounts == InitAmounts /\ [][Run]_vars

----------------------------------------------------------------------------
(* Runs on a source text with one template and one instance of it on any  *)
(* day, the tag of the template any expression                            *)

\* "r", @x, @y, @z, @Day, @Month, @Year, @Date, @Weekday
AllTagItems ==
    {TagText("r"), Expand("x"), Expand("y"), Expand("z")}
        \cup {Time(t) : t \in {"@Day", "@Month", "@Year", "@Date",
                               "@Weekday"}}

\* 2024: month: day: es
OneDayOf(month, day, es) ==
    EntriesYear(<<2, 0, 2, 4>>,
                <<EntriesMonth(month, <<EntriesDay(day, es)>>)>>)

\* e(), e(x), each with or without y = 2.00 or y = "b", the amount 1.50,
\* instantiated on a day of Days of a month of Months with a value for x
\* if it is a parameter, with or without z = 3.00 or z = "c"
InitTags ==
    \E tag \in NonEmpty(SeqsUpTo(AllTagItems, MaxTag)),
       month \in Months,
       day \in Days,
       pos \in SeqsUpTo(PositionalValues, 1),
       named \in SeqsUpTo(DefaultValues, 1),
       nam \in SeqsUpTo(NamedValues, 1) :
        Start(<<Evaluated([k \in DOMAIN pos |-> Positional("x")]
                          \o [k \in DOMAIN named |-> Named("y", named[k])],
                          FALSE, <<Money(FALSE, <<1>>, <<5, 0>>)>>, tag),
                OneDayOf(month, day,
                    <<PlainEntry(GoodFields),
                      ExpandEntry("e",
                          [k \in DOMAIN pos |-> PositionalArg(pos[k])]
                          \o [k \in DOMAIN nam |->
                                 NamedArg("z", nam[k])])>>)>>)

SpecTags == InitTags /\ [][Run]_vars

----------------------------------------------------------------------------
(* Runs on a source text with one template of any category and span and   *)
(* one instance of it                                                     *)

CategoryCodes == {"Pay", "Food", "Com", "Mov", "Pro", "Clean", "Home"}
\* Duration [Window] [2]
SpanItems ==
    {<<Leaf("span_duration", d)>> \o w \o c :
        d \in {"Day", "Week", "Month", "Year"},
        w \in {<<>>} \cup {<<Leaf("span_window", n)>> :
                              n \in {"Curr", "Post", "Ante", "Pred", "Succ"}},
        c \in {<<>>, <<Num("span_count", <<2>>)>>}}

\* f(params) { val: 1.50 [+ @x]; type: cat; span: span; tag: "r" }
Framed(params, sum, cat, span) ==
    TemplateDescriptor("f", params,
        <<TemplateVal(FALSE, <<Money(FALSE, <<1>>, <<5, 0>>)>> \o sum),
          EntryType(cat), EntrySpan(span), TemplateTag(<<TagText("r")>>)>>)

\* f(), f(x) with the amount 1.50 + @x, each with or without y = 2.00 or
\* y = "b", instantiated with a value for x if it is a parameter, with or
\* without z = 3.00 or z = "c"
InitFrame ==
    \E cat \in CategoryCodes,
       span \in SpanItems,
       pos \in SeqsUpTo(PositionalValues, 1),
       named \in SeqsUpTo(DefaultValues, 1),
       nam \in SeqsUpTo(NamedValues, 1) :
        Start(<<Framed([k \in DOMAIN pos |-> Positional("x")]
                       \o [k \in DOMAIN named |-> Named("y", named[k])],
                       [k \in DOMAIN pos |-> Expand("x")], cat, span),
                OneDay(<<PlainEntry(GoodFields),
                         ExpandEntry("f",
                             [k \in DOMAIN pos |-> PositionalArg(pos[k])]
                             \o [k \in DOMAIN nam |->
                                    NamedArg("z", nam[k])])>>)>>)

SpecFrame == InitFrame /\ [][Run]_vars

----------------------------------------------------------------------------
(* Runs on a source text that declares templates again *)

\* declarations of the source text
MaxItems == 4

\* name() { val: units.00; type: cat; span: duration; tag: tag }
Plain(name, units, cat, duration, tag) ==
    TemplateDescriptor(name, <<>>,
        <<TemplateVal(FALSE, <<Money(FALSE, <<units>>, <<0, 0>>)>>),
          EntryType(cat), EntrySpan(<<Leaf("span_duration", duration)>>),
          TemplateTag(<<TagText(tag)>>)>>)

\* two declarations of t, one of u, and a day with a plain entry, with
\* t() or with u()
RedeclarePool ==
    {Plain("t", 1, "Food", "Day", "a"),
     Plain("t", 2, "Home", "Month", "b"),
     Plain("u", 3, "Mov", "Year", "c"),
     OneDay(<<PlainEntry(GoodFields)>>),
     OneDay(<<ExpandEntry("t", <<>>)>>),
     OneDay(<<ExpandEntry("u", <<>>)>>)}

InitRedeclare ==
    \E decls \in SeqsUpTo(RedeclarePool, MaxItems) : Start(decls)

SpecRedeclare == InitRedeclare /\ [][Run]_vars

----------------------------------------------------------------------------
(* Views of the source text and of the AST the properties are stated on *)

\* locations of the template declarations, the day blocks and the entries
TemplatePaths ==
    {<<i, 1>> : i \in {i \in DOMAIN src : src[i].rule = "template_descriptor"}}
YearPaths ==
    {<<i, 1>> : i \in {i \in DOMAIN src : src[i].rule = "entries_year"}}
MonthPaths ==
    UNION {{Append(y, j) : j \in DOMAIN src[y[1]].body} : y \in YearPaths}
DayPaths ==
    UNION {{Append(m, k) : k \in DOMAIN src[m[1]].body[m[3]].rest} :
               m \in MonthPaths}
EntryPaths ==
    UNION {{Append(d, l) :
                l \in DOMAIN src[d[1]].body[d[3]].rest[d[4]].rest} :
               d \in DayPaths}

DayAt(d) == src[d[1]].body[d[3]].rest[d[4]]
EntryAt(e) == DayAt(e).rest[e[5]].inner[1]

\* the date a day block stands for, as a Result
DateAt(d) ==
    Date_from(digits_value(src[d[1]].head.digits, 0),
              Month_from(src[d[1]].body[d[3]].head.str),
              digits_value(DayAt(d).head.digits, 0))

\* document order of two locations
Before(p, q) ==
    \E n \in 1..Len(p) :
        /\ n <= Len(q)
        /\ p[n] < q[n]
        /\ \A m \in 1..(n - 1) : p[m] = q[m]

\* how often a field of the given rules occurs among fields
Occurrences(fields, rules) ==
    Cardinality({n \in DOMAIN fields : fields[n].rule \in rules})

FieldRules ==
    {{"entry_val", "template_val"}, {"entry_type"}, {"entry_span"},
     {"entry_tag", "template_tag"}}

EachFieldOnce(fields) ==
    \A rules \in FieldRules : Occurrences(fields, rules) = 1
SomeFieldTwice(fields) ==
    \E rules \in FieldRules : Occurrences(fields, rules) >= 2
SomeFieldOmitted(fields) ==
    \E rules \in FieldRules : Occurrences(fields, rules) = 0

Parses == parse(src).ok

\* every diagnostic of the run: registered, returned or printed
Diagnostics ==
    {errs[n] : n \in DOMAIN errs}
    \cup (IF result # None /\ ~result[1].ok THEN {result[1].err[1]} ELSE {})
    \cup BagToSet(printed)

\* the diagnostics about the declaration at loc
DiagnosticsAt(loc) == {d \in Diagnostics : d.notes[1].loc = loc}

\* the registry after the first i items of the AST
RECURSIVE RegistryAfter(_)
RegistryAfter(i) ==
    IF i = 0 THEN EmptyMap
    ELSE IF ast[i].item = "Template"
    THEN insert(RegistryAfter(i - 1), ast[i].name,
                [loc |-> ast[i].loc, templ |-> ast[i].templ])
    ELSE RegistryAfter(i - 1)

Instances == {i \in DOMAIN ast : ast[i].item = "Instance"}

\* the Result of resolving the i-th item of the AST against registry
Resolved(i, registry) ==
    instanciate_item(ast[i].instance, ast[i].date, ast[i].loc, registry).res

\* the pairs the items of the AST other than templates stand for, in the
\* order of the AST, the instances for which resolves(i) fails left out
Expected(registry(_), resolves(_)) ==
    LET live(it) == it.item = "Entry"
                    \/ (it.item = "Instance" /\ resolves(it.at))
        items == SelectSeq([i \in DOMAIN ast |->
                               [item |-> ast[i].item, at |-> i]], live)
    IN  [n \in DOMAIN items |->
            IF items[n].item = "Entry"
            THEN <<ast[items[n].at].date, ast[items[n].at].entry>>
            ELSE <<ast[items[n].at].date,
                   Resolved(items[n].at, registry(items[n].at)).val[1]>>]

----------------------------------------------------------------------------
(* Properties of a run on a written source text (Spec) *)

Done == pc = "done"
Returned == result[1]

\* the registry of all the templates of the AST
AllTemplates == RegistryAfter(Len(ast))

\* an instance that precedes the declaration of the template it names
PrecedesItsTemplate(i) ==
    /\ ast[i].instance.label \notin DOMAIN RegistryAfter(i - 1)
    /\ ast[i].instance.label \in DOMAIN AllTemplates

\* C1: the order of the declarations of the templates relative to the
\* instances does not matter: when every instance of the AST resolves
\* against the templates declared anywhere in the AST, instanciate returns
\* Ok with the entry of every instance, an instance that precedes its
\* template included.
C1_DeclarationOrderIrrelevant ==
    (Done /\ \A i \in Instances : Resolved(i, AllTemplates).ok)
        => /\ Returned.ok
           /\ Returned.val[1] =
                  Expected(LAMBDA i : AllTemplates, LAMBDA i : TRUE)

\* C2: an error of an instantiation is fatal to that instantiation only:
\* instanciate returns the pairs of the plain entries and of the instances
\* that resolve against the templates declared before them, whether or not
\* another instance fails.
C2_ErrorFatalToOneInstantiation ==
    Done => /\ Returned.ok
            /\ Returned.val[1] =
                   Expected(LAMBDA i : RegistryAfter(i - 1),
                            LAMBDA i : Resolved(i, RegistryAfter(i - 1)).ok)

\* the days of the source text that are no date
InvalidDays == {d \in DayPaths : ~DateAt(d).ok}
\* the plain entries and the templates of the source text that repeat or
\* omit a field
FieldsOf(p) ==
    IF Len(p) = 2 THEN src[p[1]].body.inner ELSE EntryAt(p).inner
IllFormed ==
    {p \in TemplatePaths : ~EachFieldOnce(FieldsOf(p))}
    \cup {p \in EntryPaths :
             /\ DateAt(SubSeq(p, 1, 4)).ok
             /\ EntryAt(p).rule = "plain_entry"
             /\ ~EachFieldOnce(FieldsOf(p))}
\* the instances of the AST that fail against the templates before them
FailingInstances ==
    {i \in Instances : ~Resolved(i, RegistryAfter(i - 1)).ok}

\* C3: one run reports every error: each day that is no date, each
\* declaration with a repeated or omitted field and each instance that
\* fails has a diagnostic about it when the run is over.
C3_EveryErrorReported ==
    (Done /\ Parses)
        => /\ \A p \in InvalidDays \cup IllFormed : DiagnosticsAt(p) # {}
           /\ \A i \in FailingInstances : DiagnosticsAt(ast[i].loc) # {}

\* the item the loop of instanciate took last is an instance
JustResolved == idx >= 1 /\ idx <= Len(ast) /\ ast[idx].item = "Instance"
\* the pairs the items before the one taken last stand for
PairsBefore == Cardinality({i \in 1..(idx - 1) : ast[i].item # "Template"})

UndeclaredTemplate(item) ==
    /\ Done
    /\ result # None
    /\ ~Returned.ok
    /\ Returned.err[1].title = "Undeclared template"
    /\ Returned.err[1].notes[1] =
           [loc |-> item.loc,
            text |-> "attempt to instanciate " \o item.instance.label]

\* C6: an instance resolves to the template registered under exactly the
\* name it gives.  When no template of that name is registered the
\* instantiation fails with "Undeclared template", the diagnostic names
\* the label at the location of the instance and no entry is produced;
\* when one is registered, the arguments are built for that template and
\* the instantiation does not fail with "Undeclared template".
C6_LookupByExactName ==
    JustResolved =>
        IF ast[idx].instance.label \notin DOMAIN templates
        THEN /\ UndeclaredTemplate(ast[idx])
             /\ Len(entries) = PairsBefore
        ELSE /\ ~UndeclaredTemplate(ast[idx])
             /\ bound = Some(build_arguments(ast[idx].instance, ast[idx].loc,
                                 templates[ast[idx].instance.label]))

\* an instance whose name differs from a registered one by its case only
C6_Witness ==
    /\ JustResolved
    /\ ast[idx].instance.label = "Rent"
    /\ DOMAIN templates = {"rent"}
    /\ UndeclaredTemplate(ast[idx])
    /\ entries # <<>>

\* the entries of the source text that elaboration keeps
KeptPaths ==
    {p \in EntryPaths :
        /\ DateAt(SubSeq(p, 1, 4)).ok
        /\ \/ EntryAt(p).rule = "expand_entry"
           \/ is_some(validate_plain_entry(p, <<>>, EntryAt(p)).val)}

\* the position of a kept entry among the kept entries, in document order
Rank(p) == Cardinality({q \in KeptPaths : q = p \/ Before(q, p)})

\* the registry of the templates among the first i declarations of the
\* source text
RECURSIVE TemplatesBefore(_)
TemplatesBefore(i) ==
    IF i = 0 THEN EmptyMap
    ELSE IF src[i].rule # "template_descriptor" THEN TemplatesBefore(i - 1)
    ELSE With(validate_template(<<i, 1>>, <<>>, src[i]).val, LAMBDA t :
           IF ~is_some(t) THEN TemplatesBefore(i - 1)
           ELSE insert(TemplatesBefore(i - 1), t[1].name,
                       [loc |-> <<i, 1>>, templ |-> t[1].templ]))

\* the pair the kept entry at p stands for
PairAt(p) ==
    With(DateAt(SubSeq(p, 1, 4)).val[1], LAMBDA date :
      <<date,
        IF EntryAt(p).rule = "plain_entry"
        THEN validate_plain_entry(p, <<>>, EntryAt(p)).val[1]
        ELSE instanciate_item(read_expand_entry(EntryAt(p)), date, p,
                              TemplatesBefore(p[1] - 1)).res.val[1]>>)

\* C9: when instanciate returns Ok, its list has one pair per entry or
\* instance that elaboration kept, at the position the declaration has in
\* the source text among them, whatever the dates, and equal pairs are all
\* kept.
C9_OutputInSourceOrder ==
    (Done /\ Parses /\ Returned.ok)
        => /\ Len(Returned.val[1]) = Cardinality(KeptPaths)
           /\ \A p \in KeptPaths : Returned.val[1][Rank(p)] = PairAt(p)

\* the pair of an instance of rent before the pair of a plain entry, as
\* in the source text, the day of the first after the day of the second
C9_Witness ==
    /\ Done /\ Parses /\ Returned.ok
    /\ Len(Returned.val[1]) = 2
    /\ Returned.val[1][1][2].tag = "rent"
    /\ Returned.val[1][2][2].tag = "x"
    /\ Returned.val[1][1][1].day > Returned.val[1][2][1].day

\* C10: when the source text does not parse, extract registers exactly one
\* diagnostic, "Parsing failure" carrying the parser's message, the AST is
\* empty, and instanciate returns Ok with no entry.
C10_ParseFailure ==
    (pc # "edit" /\ ~Parses)
        => /\ errs = <<with_error(Error_new("Parsing failure"),
                                  parse(src).err[1])>>
           /\ ast = <<>>
           /\ entries = <<>>
           /\ Done => result = Some(Ok(<<>>))

\* a text with two declarations that parse and one that does not
C10_Witness ==
    /\ Done
    /\ ~Parses
    /\ Len(src) = 3
    /\ Cardinality({i \in DOMAIN src : src[i].rule = "garbage"}) = 1
    /\ result = Some(Ok(<<>>))

----------------------------------------------------------------------------
(* Properties of the elaboration of a declaration's fields (SpecFields) *)

Elaborated == pc # "edit" /\ Parses

\* the plain entries in days that are dates, and with them the templates
PlainPaths ==
    {p \in EntryPaths : DateAt(SubSeq(p, 1, 4)).ok
                        /\ EntryAt(p).rule = "plain_entry"}
ExpandPaths ==
    {p \in EntryPaths : DateAt(SubSeq(p, 1, 4)).ok
                        /\ EntryAt(p).rule = "expand_entry"}
FieldPaths == PlainPaths \cup TemplatePaths

\* the diagnostics extract registered about the declaration at p
RegisteredAt(p) == SelectSeq(errs, LAMBDA e : e.notes[1].loc = p)

ItemsOf(kind) == {i \in DOMAIN ast : ast[i].item = kind}

\* each declaration with each field once is in the AST and has no
\* diagnostic, and so is each instance; no other plain entry or template is
YieldsIffEachFieldOnce ==
    /\ \A p \in TemplatePaths :
           EachFieldOnce(FieldsOf(p))
               <=> \E i \in ItemsOf("Template") : ast[i].loc = p
    /\ Cardinality(ItemsOf("Entry"))
           = Cardinality({p \in PlainPaths : EachFieldOnce(FieldsOf(p))})
    /\ \A p \in ExpandPaths : \E i \in ItemsOf("Instance") : ast[i].loc = p
    /\ Cardinality(ItemsOf("Instance")) = Cardinality(ExpandPaths)
    /\ \A p \in FieldPaths :
           EachFieldOnce(FieldsOf(p)) => RegisteredAt(p) = <<>>

OneDiagnostic(p, title) ==
    /\ Len(RegisteredAt(p)) = 1
    /\ RegisteredAt(p)[1].title = title

\* C8 as stated: a declaration yields an item of the AST only if each of
\* val, type, span and tag occurs once in it; a declaration with a field
\* twice has exactly one "Duplicate field definition" diagnostic, a
\* declaration that omits a field has exactly one "Missing field
\* definition" diagnostic, and its siblings are elaborated all the same.
C8_SetOnceFields_Stated ==
    Elaborated =>
        /\ YieldsIffEachFieldOnce
        /\ \A p \in FieldPaths :
               /\ SomeFieldTwice(FieldsOf(p))
                      => OneDiagnostic(p, "Duplicate field definition")
               /\ SomeFieldOmitted(FieldsOf(p))
                      => OneDiagnostic(p, "Missing field definition")

\* C8: a declaration yields an item of the AST only if each of val, type,
\* span and tag occurs once in it; a declaration with a field twice has
\* exactly one diagnostic, "Duplicate field definition", whether or not it
\* omits another field; a declaration that omits a field and has none
\* twice has exactly one diagnostic, "Missing field definition"; the
\* siblings of the declaration are elaborated all the same.
C8_SetOnceFields ==
    Elaborated =>
        /\ YieldsIffEachFieldOnce
        /\ \A p \in FieldPaths :
               /\ SomeFieldTwice(FieldsOf(p))
                      => OneDiagnostic(p, "Duplicate field definition")
               /\ (SomeFieldOmitted(FieldsOf(p))
                       /\ ~SomeFieldTwice(FieldsOf(p)))
                      => OneDiagnostic(p, "Missing field definition")

\* a plain entry with a field twice and another omitted, between a plain
\* entry and an instance that are both elaborated
C8_Witness ==
    /\ Elaborated
    /\ \E p \in PlainPaths :
           /\ SomeFieldTwice(FieldsOf(p))
           /\ SomeFieldOmitted(FieldsOf(p))
           /\ p[5] = 2
           /\ OneDiagnostic(p, "Duplicate field definition")
    /\ Len(errs) = 1
    /\ Len(ast) = 3

----------------------------------------------------------------------------
(* Properties of the binding of arguments (SpecArgs) *)

\* the loop of instanciate just took an instance of a registered template
Bound == JustResolved /\ is_some(bound)
TheInstance == ast[idx].instance
TheTemplate == templates[TheInstance.label]
\* the Result of build_arguments for it
Binding == bound[1]

NamesOf(pairs) == {pairs[k].name : k \in DOMAIN pairs}
\* the value the last pair of the given name has
LastOf(pairs, name) ==
    pairs[CHOOSE k \in DOMAIN pairs :
              /\ pairs[k].name = name
              /\ \A l \in DOMAIN pairs : pairs[l].name = name => l <= k].val

\* build_arguments fails with "Argcount mismatch", naming both counts at
\* both locations, and so does the run; nothing is bound
ArgcountMismatch ==
    /\ ~Binding.ok
    /\ Binding.val = None
    /\ Binding.err[1].title = "Argcount mismatch"
    /\ Binding.err[1].notes[1] =
           [loc |-> ast[idx].loc,
            text |-> "instanciation provides "
                         \o ToString(Len(TheInstance.pos)) \o " arguments"]
    /\ Binding.err[1].notes[2] =
           [loc |-> TheTemplate.loc,
            text |-> "template expects "
                         \o ToString(Len(TheTemplate.templ.positional))
                         \o " arguments"]
    /\ result = Some(Err(Binding.err[1]))
    /\ Len(entries) = PairsBefore

\* the i-th positional parameter is bound again, by a later positional
\* parameter, a named parameter or a named argument of the same name
BoundAgain(i) ==
    LET name == TheTemplate.templ.positional[i]
    IN  \/ \E j \in DOMAIN TheTemplate.templ.positional :
               j > i /\ TheTemplate.templ.positional[j] = name
        \/ name \in NamesOf(TheTemplate.templ.named)
        \/ name \in NamesOf(TheInstance.named)

\* C4 as stated: when the instance has fewer or more positional arguments
\* than the template has positional parameters, build_arguments fails
\* with "Argcount mismatch" and binds nothing; when it has as many, the
\* i-th positional parameter is bound to the i-th positional argument.
C4_PositionalArity_Stated ==
    Bound =>
        IF Len(TheInstance.pos) # Len(TheTemplate.templ.positional)
        THEN ArgcountMismatch
        ELSE /\ Binding.ok
             /\ \A i \in DOMAIN TheInstance.pos :
                    Binding.val[1][TheTemplate.templ.positional[i]]
                        = TheInstance.pos[i]

\* C4: when the instance has fewer or more positional arguments than the
\* template has positional parameters, build_arguments fails with
\* "Argcount mismatch" and binds nothing; when it has as many, every
\* positional parameter is bound, the i-th to the i-th positional argument
\* unless a later positional parameter, a named parameter of the template
\* or a named argument of the instance has the same name.
C4_PositionalArity ==
    Bound =>
        IF Len(TheInstance.pos) # Len(TheTemplate.templ.positional)
        THEN ArgcountMismatch
        ELSE /\ Binding.ok
             /\ \A i \in DOMAIN TheInstance.pos :
                    /\ TheTemplate.templ.positional[i]
                           \in DOMAIN Binding.val[1]
                    /\ ~BoundAgain(i)
                           => Binding.val[1][TheTemplate.templ.positional[i]]
                                  = TheInstance.pos[i]

\* two positional arguments of different kinds for the parameters x and y,
\* and a named parameter x that binds x again
C4_Witness ==
    /\ Bound
    /\ Binding.ok
    /\ TheTemplate.templ.positional = <<"x", "y">>
    /\ TheInstance.pos[1] # TheInstance.pos[2]
    /\ BoundAgain(1)
    /\ ~BoundAgain(2)
    /\ Binding.val[1]["x"] # TheInstance.pos[1]
    /\ Binding.val[1]["y"] = TheInstance.pos[2]

\* C5: in the mapping build_arguments returns, a named parameter of the
\* template has the value of the instance's last named argument of that
\* name when there is one, whatever the kinds of the two, and else the
\* value of the template's last default of that name.
C5_ArgumentPrecedence ==
    (Bound /\ Binding.ok) =>
        \A name \in NamesOf(TheTemplate.templ.named) :
            Binding.val[1][name] =
                IF name \in NamesOf(TheInstance.named)
                THEN LastOf(TheInstance.named, name)
                ELSE LastOf(TheTemplate.templ.named, name)

\* x defaults to an amount, the instance gives a tag for it, and the tag
\* of the entry produced is that tag
C5_Witness ==
    /\ Bound
    /\ Binding.ok
    /\ TheTemplate.templ.named = <<[name |-> "x", val |-> ArgAmount(200)]>>
    /\ TheInstance.named = <<[name |-> "x", val |-> ArgTag("c")]>>
    /\ Binding.val[1]["x"] = ArgTag("c")
    /\ Done
    /\ Returned.ok
    /\ Returned.val[1][2][2].tag = "c"

----------------------------------------------------------------------------
(* Properties of the evaluation of a template (SpecEval) *)

\* the names the amount and the tag of the template refer to
AmountRefs ==
    {TheTemplate.templ.value.sum[k].name :
        k \in {k \in DOMAIN TheTemplate.templ.value.sum :
                  TheTemplate.templ.value.sum[k].item = "Arg"}}
TagRefs ==
    {TheTemplate.templ.tag[k].str :
        k \in {k \in DOMAIN TheTemplate.templ.tag :
                  TheTemplate.templ.tag[k].item = "Arg"}}

\* every name the template refers to is bound, to an amount where the
\* amount of the template refers to it
Evaluates ==
    /\ Bound
    /\ Binding.ok
    /\ AmountRefs \cup TagRefs \subseteq DOMAIN Binding.val[1]
    /\ \A name \in AmountRefs : Binding.val[1][name].kind = "Amount"

\* the warnings of the given title printed about the instance taken last
Warnings(title) ==
    {w \in BagToSet(printed) :
        w.title = title /\ w.notes[1].loc = ast[idx].loc}
\* how many of them are about the argument name
UnusedWarnings(name) ==
    BagCardinality(
        [w \in {w \in Warnings("Unused argument") :
                   w.notes[2].text
                       = "Argument " \o name \o " is provided but not used"}
            |-> printed[w]])

\* C7: when the amount and the tag of an instance evaluate, exactly one
\* "Unused argument" warning, not fatal, is printed for each bound name
\* that neither the amount nor the tag of the template refers to, none for
\* a name that either refers to and none else, and the instance yields its
\* entry.
C7_UnusedArgument ==
    Evaluates =>
        /\ \A name \in DOMAIN Binding.val[1] :
               UnusedWarnings(name) =
                   IF name \in AmountRefs \cup TagRefs THEN 0 ELSE 1
        /\ BagCardinality([w \in Warnings("Unused argument") |-> printed[w]])
               = Cardinality(DOMAIN Binding.val[1]
                                 \ (AmountRefs \cup TagRefs))
        /\ \A w \in Warnings("Unused argument") : ~w.fatal
        /\ Len(entries) = PairsBefore + 1
        /\ entries[Len(entries)][1] = ast[idx].date
        /\ entries[Len(entries)][2].cat = TheTemplate.templ.cat
        /\ result # None => Returned = Ok(entries)

\* x, y and z are bound, only the tag refers to x, the amount to y, and z
\* has its warning when the run is over
C7_Witness ==
    /\ Evaluates
    /\ DOMAIN Binding.val[1] = {"x", "y", "z"}
    /\ AmountRefs = {"y"}
    /\ TagRefs = {"x"}
    /\ UnusedWarnings("z") = 1
    /\ UnusedWarnings("x") = 0
    /\ Done
    /\ Returned.ok

----------------------------------------------------------------------------
(* Properties of the reading of amounts (SpecAmounts) *)

\* 100 times the decimal number the literal writes, rounded to the nearest
\* whole number, a half away from zero
DecimalCents(lit) ==
    LET d(i) == IF i <= Len(lit.frac) THEN lit.frac[i] ELSE 0
        cents == 100 * digits_value(lit.int, 0) + 10 * d(1) + d(2)
                 + (IF d(3) >= 5 THEN 1 ELSE 0)
    IN  IF lit.neg THEN -cents ELSE cents

\* the items of the AST that are no template, in their order
Declared == SelectSeq(ast, LAMBDA it : it.item # "Template")

\* the literals of the val fields of the plain entry at p, and of the
\* positional arguments of the instance at p
ValLiterals(p) ==
    {f.inner[1].lit : f \in {EntryAt(p).inner[k] : k \in
        {k \in DOMAIN EntryAt(p).inner :
            EntryAt(p).inner[k].rule = "entry_val"}}}

\* C11: the Amount read from a decimal literal is 100 times the number the
\* literal writes, rounded to the nearest number of cents, a half away
\* from zero, for negative literals as for positive ones: so is the value
\* of every plain entry kept in the AST, and so is every positional
\* argument of an instance that is an amount.
C11_MonetaryRounding ==
    Elaborated =>
        \A p \in KeptPaths :
            IF EntryAt(p).rule = "plain_entry"
            THEN \A lit \in ValLiterals(p) :
                     Declared[Rank(p)].entry.value = DecimalCents(lit)
            ELSE \A k \in DOMAIN Declared[Rank(p)].instance.pos :
                     LET arg == EntryAt(p).args.inner[k].inner[1]
                     IN  arg.rule = "money_amount"
                             => Declared[Rank(p)].instance.pos[k].amount
                                    = DecimalCents(arg.lit)

----------------------------------------------------------------------------
(* Properties of the evaluation of the amount (SpecEval) *)

TheSum == TheTemplate.templ.value.sum

\* what instantiate_amount returns for the instance taken last
AmountOutcome ==
    instantiate_amount(TheInstance.label, ast[idx].loc, TheTemplate.loc,
                       TheTemplate.templ.value, Binding.val[1])

\* the constants of the sum and the cents of the arguments it refers to,
\* added up, and negated if the sign of the template is false
ExpectedAmount ==
    LET total == Sum([k \in DOMAIN TheSum |->
                         IF TheSum[k].item = "Cst" THEN TheSum[k].amount
                         ELSE Binding.val[1][TheSum[k].name].amount])
    IN  IF TheTemplate.templ.value.sign THEN total ELSE -total

\* every name the amount refers to is bound to an amount
AmountEvaluates ==
    /\ Bound
    /\ Binding.ok
    /\ AmountRefs \subseteq DOMAIN Binding.val[1]
    /\ \A name \in AmountRefs : Binding.val[1][name].kind = "Amount"

\* C12: when every name the amount of the template refers to is bound to
\* an Amount, instantiate_amount returns the sum of the constants and of
\* the cents of the arguments referred to, one term per reference,
\* negated as a whole when the sign of the template is false, with the set
\* of the names referred to; the entry of the instance, if the tag
\* evaluates too, has that amount.
C12_AmountEvaluation ==
    AmountEvaluates =>
        /\ AmountOutcome = Ok([value |-> ExpectedAmount, used |-> AmountRefs])
        /\ Evaluates => entries[Len(entries)][2].value = ExpectedAmount

\* val: -(@x + @x) with x bound to 1.00 gives -2.00
C12_Witness ==
    /\ Evaluates
    /\ ~TheTemplate.templ.value.sign
    /\ Len(TheSum) = 2
    /\ \A k \in 1..2 : TheSum[k].item = "Arg" /\ TheSum[k].name = "x"
    /\ Binding.val[1]["x"] = ArgAmount(100)
    /\ Done
    /\ Returned.ok
    /\ Returned.val[1][2][2].value = -200

\* the references of the sum without a binding or bound to a tag
Offending ==
    {k \in DOMAIN TheSum :
        /\ TheSum[k].item = "Arg"
        /\ \/ TheSum[k].name \notin DOMAIN Binding.val[1]
           \/ Binding.val[1][TheSum[k].name].kind = "Tag"}
FirstOffending == CHOOSE k \in Offending : \A l \in Offending : k <= l

\* the run ended with the given diagnostic about the instance and its
\* template, and without an entry for the instance
FailsWith(title, message) ==
    /\ Done
    /\ result # None
    /\ ~Returned.ok
    /\ Returned.err[1].title = title
    /\ Returned.err[1].fatal
    /\ Returned.err[1].notes[1].loc = ast[idx].loc
    /\ Returned.err[1].notes[2].text = message
    /\ Returned.err[1].notes[3].loc = TheTemplate.loc
    /\ Len(entries) = PairsBefore

\* C13: the first reference of the sum, from the left, that has no binding
\* or is bound to a Tag decides: the instantiation fails with "Missing
\* argument" naming it in the first case, with "Type mismatch" in the
\* second, and the instance has no entry, whatever the tag of the template
\* does with the same argument.
C13_AmountErrors ==
    (Bound /\ Binding.ok /\ Offending # {}) =>
        IF TheSum[FirstOffending].name \notin DOMAIN Binding.val[1]
        THEN FailsWith("Missing argument",
                       "Argument '" \o TheSum[FirstOffending].name
                           \o "' is not provided")
        ELSE FailsWith("Type mismatch",
                       "Cannot treat tag as a monetary value")

\* val: @x + @z with x bound to a tag and z not bound, tag: @x
C13_Witness ==
    /\ Bound
    /\ Binding.ok
    /\ Len(TheSum) = 2
    /\ TheSum[1].name = "x" /\ TheSum[2].name = "z"
    /\ DOMAIN Binding.val[1] = {"x"}
    /\ Binding.val[1]["x"] = ArgTag("a")
    /\ TagRefs = {"x"}
    /\ FailsWith("Type mismatch", "Cannot treat tag as a monetary value")

----------------------------------------------------------------------------
(* Properties of the evaluation of the tag (SpecTags) *)

TheTag == TheTemplate.templ.tag

\* what instanciate_tag returns for the instance taken last
TagOutcome ==
    instanciate_tag(TheInstance.label, ast[idx].loc, TheTemplate.loc,
                    TheTag, Binding.val[1], ast[idx].date)

RECURSIVE Concat(_)
Concat(strings) ==
    IF strings = <<>> THEN "" ELSE Head(strings) \o Concat(Tail(strings))

\* the text one item of the tag stands for on the day of the instance
Piece(item) ==
    CASE item.item = "Raw" -> item.str
      [] item.item = "Day" -> Date_day(ast[idx].date)
      [] item.item = "Month" -> Date_month(ast[idx].date)
      [] item.item = "Year" -> Date_year(ast[idx].date)
      [] item.item = "Date" -> Date_to_string(ast[idx].date)
      [] item.item = "Weekday" -> Date_weekday(ast[idx].date)
      [] item.item = "Arg" ->
            IF Binding.val[1][item.str].kind = "Tag"
            THEN Binding.val[1][item.str].tag
            ELSE Amount_to_string(Binding.val[1][item.str].amount)
ExpectedTag == Concat([k \in DOMAIN TheTag |-> Piece(TheTag[k])])

\* the references of the tag without a binding
Unbound ==
    {k \in DOMAIN TheTag :
        TheTag[k].item = "Arg" /\ TheTag[k].str \notin DOMAIN Binding.val[1]}
FirstUnbound == CHOOSE k \in Unbound : \A l \in Unbound : k <= l

\* C14: instanciate_tag returns the texts of the items of the tag put
\* together from left to right, a raw literal its text, a date builtin the
\* rendering of the date of the instance, a reference to a Tag argument
\* its string, a reference to an Amount argument the text of the amount
\* and no type error, with the set of the names referred to; a reference
\* without a binding gives "Missing argument"; when the amount evaluates,
\* the entry of the instance has that tag, or the run fails that way.
C14_TagEvaluation ==
    (Bound /\ Binding.ok) =>
        IF Unbound = {}
        THEN /\ TagOutcome = Ok([tag |-> ExpectedTag, used |-> TagRefs])
             /\ AmountEvaluates =>
                    /\ Len(entries) = PairsBefore + 1
                    /\ entries[Len(entries)][2].tag = ExpectedTag
        ELSE /\ ~TagOutcome.ok
             /\ TagOutcome.err[1].title = "Missing argument"
             /\ AmountEvaluates =>
                    FailsWith("Missing argument",
                              "Argument '" \o TheTag[FirstUnbound].str
                                  \o "' is not provided")

\* tag: @x @Weekday on 2024-Feb-01, a Thursday, with x bound to 1.00
C14_Witness ==
    /\ Evaluates
    /\ Len(TheTag) = 2
    /\ TheTag[1].item = "Arg" /\ TheTag[1].str = "x"
    /\ TheTag[2].item = "Weekday"
    /\ Binding.val[1]["x"] = ArgAmount(100)
    /\ Date_month(ast[idx].date) = "Feb"
    /\ Done
    /\ Returned.ok
    /\ Returned.val[1][2][2].tag = "1.00Thu"

----------------------------------------------------------------------------
(* Properties of the audit of the arguments (SpecEval) *)

\* how many "Needless amount" warnings are about the argument name
NeedlessWarnings(name) ==
    BagCardinality(
        [w \in {w \in Warnings("Needless amount") :
                   w.notes[2].text
                       = "Argument '" \o name
                             \o "' has type 'amount' but could be a 'tag'"}
            |-> printed[w]])

\* the bound names that hold an Amount only the tag refers to
Needless ==
    {name \in DOMAIN Binding.val[1] :
        /\ Binding.val[1][name].kind = "Amount"
        /\ name \in TagRefs
        /\ name \notin AmountRefs}

\* C15: when the amount and the tag of an instance evaluate, one "Needless
\* amount" warning, not fatal, is printed for a bound name if it holds an
\* Amount, the tag refers to it and the amount does not, none for a name
\* bound to a Tag, none for an Amount the amount refers to and none else,
\* and the instance yields its entry.
C15_NeedlessAmount ==
    Evaluates =>
        /\ \A name \in DOMAIN Binding.val[1] :
               NeedlessWarnings(name) = IF name \in Needless THEN 1 ELSE 0
        /\ BagCardinality([w \in Warnings("Needless amount") |-> printed[w]])
               = Cardinality(Needless)
        /\ \A w \in Warnings("Needless amount") : ~w.fatal
        /\ Len(entries) = PairsBefore + 1
        /\ result # None => Returned = Ok(entries)

\* x = 1.00 and y = 2.00 are bound, val: @y, tag: @x @y: x has the
\* warning, y has none, and the entry is there when the run is over
C15_Witness ==
    /\ Evaluates
    /\ DOMAIN Binding.val[1] = {"x", "y"}
    /\ Binding.val[1]["x"] = ArgAmount(100)
    /\ Binding.val[1]["y"] = ArgAmount(200)
    /\ AmountRefs = {"y"}
    /\ TagRefs = {"x", "y"}
    /\ NeedlessWarnings("x") = 1
    /\ NeedlessWarnings("y") = 0
    /\ Done
    /\ Returned.ok
    /\ Returned.val[1][2][2].tag = "1.002.00"

----------------------------------------------------------------------------
(* Properties of the entry of an instance (SpecFrame) *)

\* the instance taken last has its entry
Yielded == Bound /\ Len(entries) = PairsBefore + 1
TheEntry == entries[Len(entries)][2]

\* C16: the entry an instance yields has the category and the span of the
\* template the instance resolved to, whatever the arguments bound are,
\* and the date of the instance; the run returns it so.
C16_CategoryAndSpanCopied ==
    Yielded =>
        /\ TheEntry.cat = TheTemplate.templ.cat
        /\ TheEntry.span = TheTemplate.templ.span
        /\ entries[Len(entries)][1] = ast[idx].date
        /\ result # None => Returned = Ok(entries)

\* type: Mov; span: Week Ante 2, instantiated with x = 1.00 and z = "c"
C16_Witness ==
    /\ Yielded
    /\ DOMAIN Binding.val[1] = {"x", "z"}
    /\ Binding.val[1]["x"] = ArgAmount(100)
    /\ Binding.val[1]["z"] = ArgTag("c")
    /\ Done
    /\ Returned.ok
    /\ Returned.val[1][2][2].cat = "Movement"
    /\ Returned.val[1][2][2].span
           = [duration |-> "Week", window |-> "Anterior", count |-> 2]
    /\ Returned.val[1][2][2].value = 250

----------------------------------------------------------------------------
(* Properties of the days that are no dates (Spec) *)

\* the diagnostics registered under the given title
Registered(title) == SelectSeq(errs, LAMBDA e : e.title = title)

\* C17: a day block whose year, month and day are no date of the calendar
\* has exactly one "Invalid date" diagnostic, at the day, and none of its
\* entries is in the AST; a day block that is a date has none, and the
\* entries kept of every such day, of the same month or another, are in
\* the AST in the order of the source text, with the date of their day.
C17_InvalidDate ==
    Elaborated =>
        /\ \A d \in InvalidDays :
               /\ OneDiagnostic(d, "Invalid date")
               /\ RegisteredAt(d)[1].fatal
        /\ Len(Registered("Invalid date")) = Cardinality(InvalidDays)
        /\ Len(Declared) = Cardinality(KeptPaths)
        /\ \A p \in KeptPaths :
               /\ Declared[Rank(p)].date = DateAt(SubSeq(p, 1, 4)).val[1]
               /\ IF EntryAt(p).rule = "expand_entry"
                  THEN Declared[Rank(p)].item = "Instance"
                       /\ Declared[Rank(p)].loc = p
                       /\ Declared[Rank(p)].instance.label
                              = EntryAt(p).label.str
                  ELSE Declared[Rank(p)].item = "Entry"

\* 2024: Feb: 01: a plain entry, 30: an entry, 01: rent(-500.00)
C17_Witness ==
    /\ Elaborated
    /\ Len(src) = 1
    /\ src[1].rule = "entries_year"
    /\ Len(src[1].body) = 1
    /\ src[1].body[1].head.str = "Feb"
    /\ Len(src[1].body[1].rest) = 3
    /\ InvalidDays = {<<1, 1, 1, 2>>}
    /\ Len(errs) = 1
    /\ errs[1].title = "Invalid date"
    /\ Len(ast) = 2
    /\ ast[1].item = "Entry"
    /\ ast[2].item = "Instance"
    /\ ast[2].instance.label = "rent"
    /\ ast[2].loc = <<1, 1, 1, 3, 1>>

----------------------------------------------------------------------------
(* Properties of templates declared again (SpecRedeclare) *)

\* the templates of the given name among the first i - 1 items of the AST
DeclaredBefore(i, name) ==
    {j \in 1..(i - 1) : ast[j].item = "Template" /\ ast[j].name = name}
\* the last of them
LatestBefore(i, name) ==
    ast[CHOOSE j \in DeclaredBefore(i, name) :
            \A l \in DeclaredBefore(i, name) : l <= j]

\* the entry a template without parameters, with one constant for its
\* amount and one literal for its tag, stands for
EntryOf(t) ==
    [value |-> IF t.templ.value.sign THEN t.templ.value.sum[1].amount
               ELSE -t.templ.value.sum[1].amount,
     cat |-> t.templ.cat,
     span |-> t.templ.span,
     tag |-> t.templ.tag[1].str]

\* C18: declaring a template again under the same name gives no
\* diagnostic, and an instance is expanded from the last declaration of
\* its name that precedes it in the AST: its entry is the entry of that
\* declaration, so that instances before and after a second declaration
\* have the entries of different templates; an instance without a
\* declaration of its name before it fails with "Undeclared template".
C18_LaterDeclarationReplaces ==
    /\ errs = <<>>
    /\ printed = EmptyBag
    /\ JustResolved =>
           IF DeclaredBefore(idx, ast[idx].instance.label) = {}
           THEN UndeclaredTemplate(ast[idx])
           ELSE /\ Len(entries) = PairsBefore + 1
                /\ entries[Len(entries)]
                       = <<ast[idx].date,
                           EntryOf(LatestBefore(idx,
                                                ast[idx].instance.label))>>
                /\ result # None => Returned = Ok(entries)

\* t, t(), t again, t(): the entries are those of the first and of the
\* second declaration
C18_Witness ==
    /\ Len(ast) = 4
    /\ ast[1].item = "Template" /\ ast[1].name = "t"
    /\ ast[2].item = "Instance" /\ ast[2].instance.label = "t"
    /\ ast[3].item = "Template" /\ ast[3].name = "t"
    /\ ast[4].item = "Instance" /\ ast[4].instance.label = "t"
    /\ errs = <<>>
    /\ Done
    /\ Returned.ok
    /\ Len(Returned.val[1]) = 2
    /\ Returned.val[1][1][2].tag = "a"
    /\ Returned.val[1][1][2].value = 100
    /\ Returned.val[1][2][2].tag = "b"
    /\ Returned.val[1][2][2].cat = "Home"

----------------------------------------------------------------------------
(* Properties of the templates that are not elaborated (SpecFields) *)

\* the templates of the source text that repeat or omit a field
FailedTemplates == {p \in TemplatePaths : ~EachFieldOnce(FieldsOf(p))}

\* the templates of the given name with each field once, declared in the
\* source text before the location loc
ValidBefore(loc, name) ==
    {p \in TemplatePaths \ FailedTemplates :
        src[p[1]].id.str = name /\ Before(p, loc)}

\* C19: a template that repeats or omits a field is no item of the AST
\* and is never in the registry; an instance that is resolved, of a name
\* no template with each field once declares before it, fails with
\* "Undeclared template" and yields no entry, whether or not a failed
\* template has that name; when such a template is declared before it,
\* the instance resolves to one and does not fail that way.
C19_FailedTemplateUndeclared ==
    Elaborated =>
        /\ \A p \in FailedTemplates :
               /\ \A i \in ItemsOf("Template") : ast[i].loc # p
               /\ \A name \in DOMAIN templates : templates[name].loc # p
               /\ RegisteredAt(p) # <<>>
        /\ JustResolved =>
               IF ValidBefore(ast[idx].loc, ast[idx].instance.label) = {}
               THEN /\ UndeclaredTemplate(ast[idx])
                    /\ Len(entries) = PairsBefore
               ELSE /\ ~UndeclaredTemplate(ast[idx])
                    /\ templates[ast[idx].instance.label].loc
                           \in ValidBefore(ast[idx].loc,
                                           ast[idx].instance.label)

\* rent(amount) with its tag twice is the only template: rent(-500.00)
\* fails, after the entry of the plain entry before it
C19_Witness ==
    /\ Elaborated
    /\ Len(src) = 2
    /\ FailedTemplates = {<<1, 1>>}
    /\ src[1].id.str = "rent"
    /\ SomeFieldTwice(FieldsOf(<<1, 1>>))
    /\ ~SomeFieldOmitted(FieldsOf(<<1, 1>>))
    /\ ItemsOf("Template") = {}
    /\ JustResolved
    /\ ast[idx].instance.label = "rent"
    /\ UndeclaredTemplate(ast[idx])
    /\ Len(entries) = 1

----------------------------------------------------------------------------
(* Properties of a name that is a positional and a named parameter        *)
(* (SpecArgs)                                                             *)

PositionalNames ==
    {TheTemplate.templ.positional[k] :
        k \in DOMAIN TheTemplate.templ.positional}
\* the names that are a positional and a named parameter of the template
Colliding == PositionalNames \cap NamesOf(TheTemplate.templ.named)

\* the instance has as many positional arguments as the template has
\* positional parameters, and some name is both a positional and a named
\* parameter
Collides ==
    /\ Bound
    /\ Len(TheInstance.pos) = Len(TheTemplate.templ.positional)
    /\ Colliding # {}

\* every such name is bound to the named argument of the instance of that
\* name if there is one, else to the default of the named parameter, and
\* to no positional argument; build_arguments returns the mapping
NamedWins ==
    /\ Binding.ok
    /\ errs = <<>>
    /\ \A name \in Colliding :
           /\ name \in DOMAIN Binding.val[1]
           /\ Binding.val[1][name] =
                  IF name \in NamesOf(TheInstance.named)
                  THEN LastOf(TheInstance.named, name)
                  ELSE LastOf(TheTemplate.templ.named, name)
           /\ \A k \in DOMAIN TheInstance.pos :
                  Binding.val[1][name] # TheInstance.pos[k]

Parameters ==
    Len(TheTemplate.templ.positional) + Len(TheTemplate.templ.named)

\* C20 as stated: when a name is a positional and a named parameter of
\* the template, it is bound to the named argument of the instance of
\* that name if given, else to the named default, never to the positional
\* argument, without a diagnostic, and the mapping has fewer keys than
\* the template has positional and named parameters.
C20_NameCollision_Stated ==
    Collides =>
        /\ NamedWins
        /\ Cardinality(DOMAIN Binding.val[1]) < Parameters

\* C20: when a name is a positional and a named parameter of the
\* template, it is bound to the named argument of the instance of that
\* name if given, else to the named default, never to the positional
\* argument, without a diagnostic, and the mapping has fewer keys than
\* the template has positional and named parameters if every named
\* argument of the instance names a parameter of the template.
C20_NameCollision ==
    Collides =>
        /\ NamedWins
        /\ NamesOf(TheInstance.named)
               \subseteq PositionalNames
                             \cup NamesOf(TheTemplate.templ.named)
               => Cardinality(DOMAIN Binding.val[1]) < Parameters

\* t(x, x = "b") instantiated as t(1.00): x is bound to "b", the only
\* key, and "b" is the tag of the entry
C20_Witness ==
    /\ Collides
    /\ TheTemplate.templ.positional = <<"x">>
    /\ TheTemplate.templ.named = <<[name |-> "x", val |-> ArgTag("b")]>>
    /\ TheInstance.pos = <<ArgAmount(100)>>
    /\ TheInstance.named = <<>>
    /\ Binding.val[1]["x"] = ArgTag("b")
    /\ DOMAIN Binding.val[1] = {"x"}
    /\ Done
    /\ Returned.ok
    /\ Returned.val[1][2][2].tag = "b"

----------------------------------------------------------------------------
(* Properties of a named argument the template does not declare (SpecEval) *)

\* the names of the named arguments of the instance that are no parameter
\* of the template
Undeclared ==
    NamesOf(TheInstance.named)
        \ (PositionalNames \cup NamesOf(TheTemplate.templ.named))

\* what instanciate_item gives for the instance without its named
\* arguments
WithoutNamed ==
    instanciate_item([TheInstance EXCEPT !.named = <<>>], ast[idx].date,
                     ast[idx].loc, templates)

\* the run failed with "Missing argument" about the given name
MissingArgument(name) ==
    /\ result # None
    /\ ~Returned.ok
    /\ Returned.err[1].title = "Missing argument"
    /\ Returned.err[1].notes[2].text
           = "Argument '" \o name \o "' is not provided"

\* C21: a named argument of the instance whose name is no positional and
\* no named parameter of the template is bound by build_arguments, which
\* returns no error; no reference to the name fails with "Missing
\* argument", and when the amount and the tag evaluate the entry has the
\* amount and the tag computed with its value; when neither the amount
\* nor the tag refers to any such name, the instantiation gives what it
\* gives without the named arguments, and when it yields its entry it
\* prints one "Unused argument" warning, not fatal, for each such name
\* and nothing else more.
C21_UndeclaredNamedArgument ==
    (Bound /\ Len(TheInstance.pos) = Len(TheTemplate.templ.positional)
           /\ Undeclared # {}) =>
        /\ Binding.ok
        /\ \A name \in Undeclared :
               /\ name \in DOMAIN Binding.val[1]
               /\ Binding.val[1][name] = LastOf(TheInstance.named, name)
               /\ ~MissingArgument(name)
        /\ Evaluates =>
               /\ Len(entries) = PairsBefore + 1
               /\ entries[Len(entries)][2].value = ExpectedAmount
               /\ entries[Len(entries)][2].tag = ExpectedTag
        /\ Undeclared \cap (AmountRefs \cup TagRefs) = {} =>
               /\ Len(entries) = PairsBefore + 1 <=> WithoutNamed.res.ok
               /\ WithoutNamed.res.ok =>
                      entries[Len(entries)][2] = WithoutNamed.res.val[1]
               /\ ~WithoutNamed.res.ok =>
                      result = Some(Err(WithoutNamed.res.err[1]))
               /\ Evaluates =>
                      /\ \A name \in Undeclared : UnusedWarnings(name) = 1
                      /\ \A w \in Warnings("Unused argument") : ~w.fatal
                      /\ BagCardinality(printed)
                             = BagCardinality(WithoutNamed.printed)
                                   + Cardinality(Undeclared)

\* e(x) { val: 1.50 + @z; tag: @z } instantiated as e(1.00, z = 3.00):
\* the entry has 4.50 and "3.00", and only x has a warning
C21_Witness ==
    /\ Evaluates
    /\ Undeclared = {"z"}
    /\ DOMAIN Binding.val[1] = {"x", "z"}
    /\ Binding.val[1]["z"] = ArgAmount(300)
    /\ AmountRefs = {"z"}
    /\ TagRefs = {"z"}
    /\ Len(TheSum) = 2
    /\ Len(TheTag) = 1
    /\ UnusedWarnings("z") = 0
    /\ UnusedWarnings("x") = 1
    /\ Done
    /\ Returned.ok
    /\ Returned.val[1][2][2].value = 450
    /\ Returned.val[1][2][2].tag = "3.00"

\* e() { val: 1.50; tag: "r" } instantiated as e(z = "c"): the entry is
\* there and z has its warning
C21_WitnessUnused ==
    /\ Evaluates
    /\ Undeclared = {"z"}
    /\ Binding.val[1] = [n \in {"z"} |-> ArgTag("c")]
    /\ AmountRefs \cup TagRefs = {}
    /\ UnusedWarnings("z") = 1
    /\ BagCardinality(printed) = 1
    /\ Done
    /\ Returned.ok
    /\ Returned.val[1][2][2].tag = "r"

====
